---------------------------- MODULE Spec2Model ----------------------------
(***************************************************************************)
(* A model of the native-sfc / wc-loader component loader, its module      *)
(* rewriter, and its signal graph with the template binder.                *)
(*                                                                         *)
(* JavaScript runs one task at a time: every action below is one           *)
(* synchronous run-to-completion stretch of the code (from a public call   *)
(* or the resumption after an await up to the next await or return).       *)
(* Strings are sequences of one-character strings, so that startsWith,     *)
(* slice and URL resolution are computed, not assumed.                     *)
(***************************************************************************)
EXTENDS Integers, Sequences, FiniteSets, TLC

\* ------------------------------------------------------------------ bounds
MaxCalls == 2
MaxStyles == 3

\* effects user code creates on the signal graph
MaxUserEffects == 2

\* effects beyond which no more signal is written (re-renders create effects)
MaxEffects == 8

\* effect scopes user code creates
MaxScopes == 2

\* ------------------------------------------------------------------ strings
StartsWith(s, p) == Len(s) >= Len(p) /\ SubSeq(s, 1, Len(p)) = p

Slice(s, from, to) == SubSeq(s, from + 1, to)

\* first position >= from at which ch occurs in s, or 0
RECURSIVE IndexFrom(_, _, _)
IndexFrom(s, ch, from) ==
  IF from > Len(s) THEN 0
  ELSE IF s[from] = ch THEN from
  ELSE IndexFrom(s, ch, from + 1)

Letters == {"a", "b", "c", "d", "e", "f", "g", "h", "i", "j", "k", "l", "m",
            "n", "o", "p", "q", "r", "s", "t", "u", "v", "w", "x", "y", "z"}

\* the part of s before its first "/" (all of s when it has none)
BeforeSlash(s) ==
  LET i == IndexFrom(s, "/", 1) IN IF i = 0 THEN s ELSE SubSeq(s, 1, i - 1)

\* s begins with a URL scheme: a letter, then no "/" before the first ":"
HasScheme(s) ==
  /\ Len(s) > 1
  /\ s[1] \in Letters
  /\ IndexFrom(BeforeSlash(s), ":", 1) > 1

\* "scheme://host" of a hierarchical URL
Origin(u) ==
  LET c == IndexFrom(u, ":", 1)
      p == IndexFrom(u, "/", c + 3)
  IN  IF p = 0 THEN u ELSE SubSeq(u, 1, p - 1)

\* the path of a hierarchical URL, from its first "/" after the host
PathOf(u) ==
  LET c == IndexFrom(u, ":", 1)
      p == IndexFrom(u, "/", c + 3)
  IN  IF p = 0 THEN <<"/">> ELSE SubSeq(u, p, Len(u))

\* the path up to and including its last "/"
RECURSIVE DirOf(_)
DirOf(path) ==
  IF path = <<>> THEN <<"/">>
  ELSE IF path[Len(path)] = "/" THEN path
  ELSE DirOf(SubSeq(path, 1, Len(path) - 1))

\* the segments of a path that starts with "/"
RECURSIVE Segments(_)
Segments(path) ==
  IF path = <<>> THEN <<>>
  ELSE LET rest == Tail(path)
           i == IndexFrom(rest, "/", 1)
       IN  IF i = 0 THEN <<rest>>
           ELSE <<SubSeq(rest, 1, i - 1)>> \o Segments(SubSeq(rest, i, Len(rest)))

Dot == <<".">>
DotDot == <<".", ".">>

\* RFC 3986 remove_dot_segments, over the segment list; acc is the output so far
RECURSIVE RemoveDots(_, _)
RemoveDots(segs, acc) ==
  IF segs = <<>> THEN acc
  ELSE LET s == Head(segs)
           last == Len(segs) = 1
       IN  IF s = Dot
             THEN RemoveDots(Tail(segs), IF last THEN Append(acc, <<>>) ELSE acc)
           ELSE IF s = DotDot
             THEN LET up == IF acc = <<>> THEN acc ELSE SubSeq(acc, 1, Len(acc) - 1)
                  IN  RemoveDots(Tail(segs), IF last THEN Append(up, <<>>) ELSE up)
           ELSE RemoveDots(Tail(segs), Append(acc, s))

RECURSIVE JoinPath(_)
JoinPath(segs) ==
  IF segs = <<>> THEN <<>> ELSE <<"/">> \o Head(segs) \o JoinPath(Tail(segs))

NormalizePath(path) ==
  LET out == JoinPath(RemoveDots(Segments(path), <<>>))
  IN  IF out = <<>> THEN <<"/">> ELSE out

S_http == <<"h", "t", "t", "p", ":", "/", "/">>
S_https == <<"h", "t", "t", "p", "s", ":", "/", "/">>
S_blob_http == <<"b", "l", "o", "b", ":", "h", "t", "t", "p", ":", "/", "/">>
S_blob_https == <<"b", "l", "o", "b", ":", "h", "t", "t", "p", "s", ":", "/", "/">>
S_data == <<"d", "a", "t", "a", ":">>
S_esm_sh == <<"h", "t", "t", "p", "s", ":", "/", "/", "e", "s", "m", ".", "s", "h", "/">>

\* new URL(ref, base).href for an absolute hierarchical base
URLResolve(ref, base) ==
  IF HasScheme(ref) THEN
    IF StartsWith(ref, S_http) \/ StartsWith(ref, S_https)
      THEN Origin(ref) \o NormalizePath(PathOf(ref))
      ELSE ref
  ELSE IF StartsWith(ref, <<"/", "/">>) THEN
    LET abs == SubSeq(base, 1, IndexFrom(base, ":", 1)) \o ref
    IN  Origin(abs) \o NormalizePath(PathOf(abs))
  ELSE IF StartsWith(ref, <<"/">>) THEN
    Origin(base) \o NormalizePath(ref)
  ELSE
    Origin(base) \o NormalizePath(DirOf(PathOf(base)) \o ref)


\* ------------------------------------------------------------------ state
VARIABLES
  rw,        \* the module rewriter: the source handed to rewriteModule and its output
  dc,        \* esm and defineComponent: blobMap, the temporary URLs not yet revoked, the
             \* imports, the JS call stack, the last call's outcome
  registry,  \* customElements: tag name -> constructor
  record,    \* loadedComponentsRecord: tag name -> [url, cec]
  calls,     \* the loadComponent calls: call id -> the call's locals and position
  head,      \* the nodes appended to the host document's <head>
  classes,   \* the constructors synthesized so far: cec id -> what the class closes over
  el,        \* one load from evaluateModules on: the module scripts, the merged exports,
             \* the class synthesized and the last instance constructed
  value,          \* each signal's value
  subscribers,    \* each signal's and computed's subscriber Set, in insertion order
  effects,        \* the ReactiveEffects created so far: id -> deps, options and body
  jobQueue,       \* the scheduler's jobQueue
  isFlushPending, \* the scheduler's isFlushPending
  microtasks,     \* the flushJobs microtasks scheduled and not yet run
  activeEffect,   \* the ambient activeEffect (0: null)
  activeScope,    \* the ambient activeScope (0: null)
  computeds,      \* each computed's value, dirty and isComputing
  scopes,         \* the EffectScopes created so far: id -> effects (stop functions), active
  dom,            \* the bound template: its #for binding, rendered items and child nodes
  trace,          \* what the last step executed: effect bodies run, computed functions called
  op              \* the last step taken and its arguments

loaderVars == <<registry, record, calls, head, classes, el>>
signalVars == <<value, subscribers, effects, jobQueue, isFlushPending, microtasks,
                activeEffect, activeScope, computeds, scopes, dom, trace, op>>
vars == <<rw, dc, loaderVars, signalVars>>

\* ------------------------------------------------------------------ module rewriter
DQ == <<"\"">>
SQ == <<"'">>
S_import == <<"i", "m", "p", "o", "r", "t">>
S_meta == <<"i", "m", "p", "o", "r", "t", ".", "m", "e", "t", "a", ".", "u", "r", "l", "=">>

isBrowserUrl(url) ==
  \/ StartsWith(url, S_http)
  \/ StartsWith(url, S_https)
  \/ StartsWith(url, S_blob_http)
  \/ StartsWith(url, S_blob_https)
  \/ StartsWith(url, S_data)

\* the filter of rewriteModule: the import entries that are rewritten
IsRewritable(code, i) ==
  LET specifier == Slice(code, i.s, i.e)
  IN  ~isBrowserUrl(specifier) /\ ~StartsWith(specifier, S_data)

\* the body of the loop of rewriteModule: one entry spliced into the code
RewriteEntry(code, importEntry, sourceUrl) ==
  LET specifier == Slice(code, importEntry.s, importEntry.e)
      rewritten ==
        IF StartsWith(specifier, <<".">>) \/ StartsWith(specifier, <<"/">>)
          THEN URLResolve(specifier, sourceUrl)
          ELSE S_esm_sh \o specifier
  IN  Slice(code, 0, importEntry.s) \o rewritten \o Slice(code, importEntry.e, Len(code))

Reverse(s) == [k \in 1..Len(s) |-> s[Len(s) + 1 - k]]

\* the entries taken in the order given, each spliced into the result of the one before
RECURSIVE RewriteAll(_, _, _)
RewriteAll(code, entries, sourceUrl) ==
  IF entries = <<>> THEN code
  ELSE RewriteAll(RewriteEntry(code, Head(entries), sourceUrl), Tail(entries), sourceUrl)

JSONStringify(str) == DQ \o str \o DQ

rewriteModule(code, imports, sourceUrl) ==
  LET rewritableImports == SelectSeq(imports, LAMBDA i : IsRewritable(code, i))
      out == RewriteAll(code, Reverse(rewritableImports), sourceUrl)
  IN  S_meta \o JSONStringify(sourceUrl) \o <<";", "\n">> \o out

\* The lexer (es-module-lexer's parse) is a library: a module is given here by its
\* import specifiers, its text is one import statement per specifier, and the
\* entries are the offsets [s, e) of the specifiers in that text.
ImportStatement(spec) == S_import \o SQ \o spec \o SQ \o <<";">>

RECURSIVE ModuleText(_)
ModuleText(specs) ==
  IF specs = <<>> THEN <<>> ELSE ImportStatement(Head(specs)) \o ModuleText(Tail(specs))

RECURSIVE ModuleEntries(_, _)
ModuleEntries(specs, offset) ==
  IF specs = <<>> THEN <<>>
  ELSE LET s == offset + Len(S_import) + 1
           e == s + Len(Head(specs))
       IN  <<[s |-> s, e |-> e]>> \o ModuleEntries(Tail(specs), e + 2)

Specifiers ==
  { <<".", "/", "a", ".", "j", "s">>,
    <<".", ".", "/", "b", ".", "j", "s">>,
    <<"/", "r", ".", "j", "s">>,
    <<"l", "o", "d", "a", "s", "h">>,
    <<"@", "s", "/", "p">>,
    <<"h", "t", "t", "p", "s", ":", "/", "/", "h", "/", "x", ".", "j", "s">>,
    <<"h", "t", "t", "p", ":", "/", "/", "h", "/", "x", ".", "j", "s">>,
    <<"b", "l", "o", "b", ":", "h", "t", "t", "p", "s", ":", "/", "/", "h", "/", "1">>,
    <<"b", "l", "o", "b", ":", "h", "t", "t", "p", ":", "/", "/", "h", "/", "1">>,
    <<"b", "l", "o", "b", ":", "n", "u", "l", "l", "/", "1">>,
    <<"d", "a", "t", "a", ":", ",", "1">> }

SourceUrls ==
  { <<"h", "t", "t", "p", "s", ":", "/", "/", "h", "/", "d", "i", "r", "/", "c", ".", "h", "t", "m", "l">>,
    <<"h", "t", "t", "p", "s", ":", "/", "/", "h", "/", "c">> }

Modules == {<<>>} \cup {<<a>> : a \in Specifiers} \cup {<<a, b>> : a, b \in Specifiers}

RwIdle == [phase |-> "idle", specs |-> <<>>, code |-> <<>>, imports |-> <<>>,
           sourceUrl |-> <<>>, out |-> <<>>]

\* esm(code, sourceUrl) is called: the source text and its lexed import entries
EsmCall(specs, sourceUrl) ==
  /\ rw.phase = "idle"
  /\ rw' = [phase |-> "called", specs |-> specs, code |-> ModuleText(specs),
            imports |-> ModuleEntries(specs, 0), sourceUrl |-> sourceUrl, out |-> <<>>]
  /\ UNCHANGED <<dc, loaderVars, signalVars>>

\* code = rewriteModule(code, sourceUrl)
EsmRewrite ==
  /\ rw.phase = "called"
  /\ rw' = [rw EXCEPT !.phase = "rewritten",
                      !.out = rewriteModule(rw.code, rw.imports, rw.sourceUrl)]
  /\ UNCHANGED <<dc, loaderVars, signalVars>>

\* ------------------------------------------------------------------ defineComponent
\* The files a stack frame can belong to: the bundled library itself, two blob URLs
\* that esm() may create, a blob URL made by somebody else, the page, a helper module
\* served over https.
LibFile == "lib"
EsmBlobs == {"blob:1", "blob:2"}
Files == EsmBlobs \cup {"blob:other", "https://h/page.html", "https://h/helper.js"}

MaxDepth == 3

\* the sourceUrl argument of esm(): the URL of a component document or of a script
EsmSourceUrls == {"https://h/c.html", "https://h/m.js"}

\* a frame the engine reports without a file, the location of the page, and
\* getImporterUrl returning null
NoFile == ""
LocationHref == "https://h/page.html"
Null == "null"

\* live: the object URLs created and not revoked; imports: the state of import(blobUrl)
\* for every blob URL esm created (history)
DcIdle == [blobMap |-> [b \in {} |-> ""], stack |-> <<>>, phase |-> "idle",
           result |-> "none", invoked |-> 0, root |-> "none", caller |-> "none",
           live |-> {}, imports |-> [b \in {} |-> ""], importer |-> "none",
           importerUrl |-> "none"]

\* Map.set
MapSet(map, k, v) == [x \in DOMAIN map \cup {k} |-> IF x = k THEN v ELSE map[x]]

\* esm(code, sourceUrl) up to its await: URL.createObjectURL(blob) gives a URL not
\* given before, blobMap.set(blobUrl, sourceUrl), import(blobUrl) is started
EsmRegisters(b, sourceUrl) ==
  /\ b \notin DOMAIN dc.blobMap
  /\ dc' = [dc EXCEPT !.blobMap = MapSet(@, b, sourceUrl), !.phase = "running",
                      !.live = @ \cup {b}, !.imports = MapSet(@, b, "pending")]
  /\ UNCHANGED <<rw, loaderVars, signalVars>>

\* the mutant of revokeObjectURL in finally: revoked after the await, not in finally
RevokeOnSuccess(live, b, ok) == IF ok THEN live \ {b} ELSE live

\* finally { URL.revokeObjectURL(blobUrl) }
revokeObjectURL(live, b, ok) == live \ {b}

\* import(blobUrl) settles and esm() resumes: it returns the module or rethrows, with
\* the finally block run on both paths
ImportSettles(b, ok) ==
  /\ b \in DOMAIN dc.imports
  /\ dc.imports[b] = "pending"
  /\ dc' = [dc EXCEPT !.live = revokeObjectURL(@, b, ok), !.phase = "running",
                      !.imports[b] = IF ok THEN "fulfilled" ELSE "rejected"]
  /\ UNCHANGED <<rw, loaderVars, signalVars>>

\* code of file f is entered: top-level code of a script or module when the stack
\* is empty, a function of f called by the frame on top otherwise
EnterFrame(f) ==
  /\ Len(dc.stack) < MaxDepth
  /\ f \in EsmBlobs => f \in DOMAIN dc.blobMap   \* a blob module runs only after esm() made it
  /\ dc' = [dc EXCEPT !.stack = <<f>> \o @, !.phase = "running"]
  /\ UNCHANGED <<rw, loaderVars, signalVars>>

\* the frame on top returns
LeaveFrame ==
  /\ dc.stack # <<>>
  /\ dc' = [dc EXCEPT !.stack = Tail(@), !.phase = "running"]
  /\ UNCHANGED <<rw, loaderVars, signalVars>>

\* stackTraceParser.parse(new Error().stack): innermost frame first, the frame of
\* defineComponent itself (in the bundled library) on top of the caller's frames
StackTrace(stack) == <<LibFile>> \o stack

\* blobMap.has(whoDefineMe) with whoDefineMe the file of the trace's last frame
whoDefineMeIsBlob(blobMap, frames) == frames[Len(frames)] \in DOMAIN blobMap

\* defineComponent(fc) called by the frame on top of the stack
defineComponent ==
  /\ dc.stack # <<>>
  /\ dc' = IF whoDefineMeIsBlob(dc.blobMap, StackTrace(dc.stack))
             THEN [dc EXCEPT !.phase = "returned", !.result = "class", !.invoked = 0,
                             !.root = "none", !.caller = Head(dc.stack)]
             ELSE [dc EXCEPT !.phase = "returned", !.result = "fcResult", !.invoked = 1,
                             !.root = "document", !.caller = Head(dc.stack)]
  /\ UNCHANGED <<rw, loaderVars, signalVars>>

\* file.startsWith("blob:"), for the files of this model
startsWithBlob(file) == file \in EsmBlobs \cup {"blob:other"}

\* the mutant of getImporterUrl: a blob URL that esm() did not make is returned
RECURSIVE GetImporterUrlNoSkip(_, _)
GetImporterUrlNoSkip(blobMap, frames) ==
  IF frames = <<>> THEN Null
  ELSE IF Head(frames) # NoFile /\ Head(frames) # LibFile
    THEN IF startsWithBlob(Head(frames)) /\ Head(frames) \in DOMAIN blobMap
           THEN blobMap[Head(frames)]
           ELSE Head(frames)
  ELSE GetImporterUrlNoSkip(blobMap, Tail(frames))

\* getImporterUrl(): the loop over the parsed stack, innermost frame first
\* (import.meta.url is the file of the bundled library)
RECURSIVE getImporterUrl(_, _)
getImporterUrl(blobMap, frames) ==
  IF frames = <<>> THEN Null
  ELSE IF Head(frames) # NoFile /\ Head(frames) # LibFile
    THEN IF startsWithBlob(Head(frames))
           THEN IF Head(frames) \in DOMAIN blobMap
                  THEN blobMap[Head(frames)]
                  ELSE getImporterUrl(blobMap, Tail(frames))
           ELSE Head(frames)
  ELSE getImporterUrl(blobMap, Tail(frames))

\* getImporterUrl() || location.href
OrLocation(importer) == IF importer = Null THEN LocationHref ELSE importer

\* the first statement of loadComponent, called by the frame on top of the stack (by
\* the library or a task without frames when the stack is empty); the trace holds the
\* frames of getImporterUrl and loadComponent first
loadComponentImporter ==
  /\ dc' = [dc EXCEPT !.phase = "resolved",
                      !.importer = getImporterUrl(dc.blobMap,
                                                  StackTrace(StackTrace(dc.stack))),
                      !.importerUrl =
                         OrLocation(getImporterUrl(dc.blobMap,
                                                   StackTrace(StackTrace(dc.stack))))]
  /\ UNCHANGED <<rw, loaderVars, signalVars>>

\* ------------------------------------------------------------------ component loader
Names == {"x-a", "x-b"}
CallIds == 1..MaxCalls

\* what getImporterUrl() || location.href yields for the caller
Importers ==
  { <<"h", "t", "t", "p", "s", ":", "/", "/", "h", "/", "p", "/", "i">>,
    <<"h", "t", "t", "p", "s", ":", "/", "/", "h", "/", "q", "/", "i">> }

\* the url argument of loadComponent
UrlArgs ==
  { <<".", "/", "c">>,
    <<".", ".", "/", "p", "/", "c">>,
    <<"/", "q", "/", "c">>,
    <<"h", "t", "t", "p", "s", ":", "/", "/", "h", "/", "p", "/", "c">> }

\* A component document, as far as the loader looks at it: its <style> and
\* <link rel="stylesheet"> elements and its <script type="module"> elements, in
\* document order.  text is what the element holds (for a link: what its href serves).
StyleNodes ==
  [tag : {"style", "link"}, global : BOOLEAN, text : {"empty", "css", "bad"}]

ModuleNodes == [src : BOOLEAN]

RECURSIVE SeqsUpTo(_, _)
SeqsUpTo(S, n) ==
  IF n = 0 THEN {<<>>}
  ELSE LET shorter == SeqsUpTo(S, n - 1)
       IN  shorter \cup {Append(q, x) : q \in {r \in shorter : Len(r) = n - 1}, x \in S}

\* each element carries its position in the document as its identity
Numbered(nodes) == [k \in 1..Len(nodes) |-> [ix |-> k, node |-> nodes[k]]]

StyleDocs == {[styles |-> Numbered(q), modules |-> <<>>] : q \in SeqsUpTo(StyleNodes, MaxStyles)}

MaxModules == 2
MaxInstances == 2

\* documents with links, styles and up to MaxModules module scripts
PipelineDocs ==
  { [styles |-> Numbered(q), modules |-> Numbered(ms)] :
      q \in { <<>>,
              <<[tag |-> "link", global |-> FALSE, text |-> "css"],
                [tag |-> "style", global |-> FALSE, text |-> "css"]>>,
              <<[tag |-> "link", global |-> TRUE, text |-> "css"],
                [tag |-> "link", global |-> FALSE, text |-> "empty"],
                [tag |-> "link", global |-> FALSE, text |-> "css"]>> },
      ms \in SeqsUpTo(ModuleNodes, MaxModules) }

PlainDocs ==
  { [styles |-> Numbered(<<[tag |-> "link", global |-> FALSE, text |-> "css"]>>),
      modules |-> <<>>],
    [styles |-> Numbered(<<[tag |-> "style", global |-> TRUE, text |-> "css"]>>),
     modules |-> Numbered(<<[src |-> TRUE]>>)] }

\* A call's locals (name, url, the document tree, the pending node lists, the sheets
\* collected, the constructor returned) and, for stating properties, what it met:
\* the document as served (doc, docModules), whether the name was defined and which URL was
\* tracked for it when the call began (sawDefined, sawUrl), the links whose fetch
\* failed, the counts of its network fetches and of its warnings, the steps it has
\* entered so far (steps), and the URL and the source that the error it rejected with
\* names (errorUrl, errorSource).
NoCall == [pc |-> "idle", name |-> "", url |-> <<>>, tree |-> <<>>, links |-> <<>>,
           scripts |-> <<>>, adoptedStyleSheets |-> <<>>, cec |-> 0, error |-> "",
           doc |-> <<>>, docModules |-> <<>>, sawDefined |-> FALSE, sawUrl |-> <<>>, failedLinks |-> {},
           fetches |-> 0, warnings |-> 0, steps |-> <<>>,
           errorUrl |-> <<>>, errorSource |-> [name |-> "", url |-> <<>>]]

\* history: the call enters a step of the pipeline (ix: the node it works on, or 0)
Step(call, step, ix) == [call EXCEPT !.steps = Append(@, [step |-> step, ix |-> ix])]

RECURSIVE StepAll(_, _)
StepAll(call, steps) ==
  IF steps = <<>> THEN call ELSE StepAll(Step(call, Head(steps), 0), Tail(steps))

EmptyMap == [x \in {} |-> 0]

NextCec == Cardinality(DOMAIN classes) + 1

\* the dedup check of loadComponent
DedupNoConflict(name, url) ==
  IF name \in DOMAIN registry /\ name \in DOMAIN record /\ record[name].url = url
    THEN "cached" ELSE "load"

DedupNoCache(name, url) ==
  IF name \in DOMAIN registry /\ name \notin DOMAIN record THEN "conflict" ELSE "load"

DedupCheck(name, url) ==
  IF name \in DOMAIN registry THEN
    IF name \notin DOMAIN record THEN "conflict"
    ELSE IF record[name].url = url THEN "cached"
    ELSE "load"
  ELSE "load"

\* loadComponent up to its first await: resolve, dedup check, issue the fetch
loadComponent(c, name, url, importerUrl) ==
  LET resolved == URLResolve(url, importerUrl)
      started == StepAll([calls[c] EXCEPT
                    !.name = name, !.url = resolved,
                    !.sawDefined = name \in DOMAIN registry,
                    !.sawUrl = IF name \in DOMAIN record THEN record[name].url ELSE <<>>],
                    <<"resolve", "component-loading", "dedup">>)
      dedup == DedupCheck(name, resolved)
  IN
  /\ calls[c].pc = "idle"
  /\ \A d \in 1..(c - 1) : calls[d].pc # "idle"   \* call ids are handed out in order
  /\ calls' = [calls EXCEPT ![c] =
       IF dedup = "conflict"
         THEN [started EXCEPT !.pc = "rejected", !.error = "name-in-use"]
       ELSE IF dedup = "cached"
         THEN [started EXCEPT !.pc = "resolved", !.cec = record[name].cec]
       ELSE [Step(started, "requestText", 0) EXCEPT !.pc = "requestText", !.fetches = 1]]
  /\ UNCHANGED <<signalVars, rw, dc, el, registry, record, head, classes>>

\* filterGlobalStyle: what is appended to document.head, in the order of the two loops
GlobalNodes(styles) ==
  SelectSeq(styles, LAMBDA n : n.node.tag = "style" /\ n.node.global)
    \o SelectSeq(styles, LAMBDA n : n.node.tag = "link" /\ n.node.global)

FilterKeepsGlobal(styles) == styles

\* filterGlobalStyle: what stays in the component document (append moves the node)
filterGlobalStyle(styles) == SelectSeq(styles, LAMBDA n : ~n.node.global)

\* cssStyleSheetFromText: the sheet is returned also when replaceSync threw
cssStyleSheetFromText(n) == [ix |-> n.ix, parsed |-> n.node.text = "css"]

Without(tree, n) == SelectSeq(tree, LAMBDA m : m.ix # n.ix)

\* the second loop of collectAdoptedStyleSheets, over the <style> elements left
RECURSIVE CollectStyles(_, _)
CollectStyles(call, todo) ==
  IF todo = <<>> THEN call
  ELSE LET style == Head(todo)
       IN  IF style.node.text = "empty"
             THEN CollectStyles(call, Tail(todo))
             ELSE CollectStyles(
                    [call EXCEPT
                       !.adoptedStyleSheets = Append(@, cssStyleSheetFromText(style)),
                       !.warnings = IF style.node.text = "bad" THEN @ + 1 ELSE @,
                       !.tree = Without(@, style)],
                    Tail(todo))

EnterModulesUnordered(call) ==
  IF call.scripts = <<>> THEN [call EXCEPT !.pc = "define"]
  ELSE [Step(call, "module", call.scripts[Len(call.scripts)].ix) EXCEPT
          !.pc = "esm",
          !.fetches = IF Head(call.scripts).node.src THEN @ + 1 ELSE @]

\* evaluateModules, entered or resumed: up to the next await
EnterModules(call) ==
  IF call.scripts = <<>> THEN [call EXCEPT !.pc = "define"]
  ELSE [Step(call, "module", Head(call.scripts).ix) EXCEPT
          !.pc = "esm",
          !.fetches = IF Head(call.scripts).node.src THEN @ + 1 ELSE @]

\* collectAdoptedStyleSheets, entered or resumed: up to the next await
EnterStyles(call) ==
  IF call.links # <<>>
  THEN [Step(call, "link", Head(call.links).ix) EXCEPT !.pc = "link", !.fetches = @ + 1]
  ELSE LET done == CollectStyles(call,
                     SelectSeq(call.tree, LAMBDA n : n.node.tag = "style"))
       IN  [done EXCEPT !.pc = "modules"]

RequestFailureSwallowed(call) == [call EXCEPT !.pc = "define"]

\* request() throws NativeSFCError(`Failed to fetch ${url} at ${userFriendlySource}`)
\* for the component document, and loadComponent does not catch it
requestFailed(call) ==
  [call EXCEPT !.pc = "rejected", !.error = "fetch", !.errorUrl = call.url,
               !.errorSource = [name |-> call.name, url |-> call.url]]

\* requestText(url) settles: it failed, or it served one of the documents docs
HtmlArrives(c, ok, docs) ==
  /\ calls[c].pc = "requestText"
  /\ IF ok
       THEN \E doc \in docs :
            LET tree == filterGlobalStyle(doc.styles)
            IN  /\ head' = head \o [k \in 1..Len(GlobalNodes(doc.styles)) |->
                                       [call |-> c, ix |-> GlobalNodes(doc.styles)[k].ix]]
                /\ calls' = [calls EXCEPT ![c] =
                     EnterStyles(StepAll([@ EXCEPT
                       !.doc = doc.styles,
                       !.docModules = doc.modules,
                       !.tree = tree,
                       !.links = SelectSeq(tree, LAMBDA n : n.node.tag = "link"),
                       !.scripts = doc.modules],
                       <<"parse", "filterGlobalStyle", "rewriteStyleAndScript",
                         "collectAdoptedStyleSheets">>))]
       ELSE /\ calls' = [calls EXCEPT ![c] = requestFailed(@)]
            /\ head' = head
  /\ UNCHANGED <<signalVars, rw, dc, el, registry, record, classes>>

LinkFailureRejects(call) == [call EXCEPT !.pc = "rejected", !.error = "link"]

\* the .catch on requestText(link.href): warn, the text is "", and the loop continues
linkFailed(call) ==
  EnterStyles([call EXCEPT !.links = Tail(@),
                           !.failedLinks = @ \cup {Head(call.links).ix},
                           !.warnings = @ + 1])

\* requestText(link.href) settles inside collectAdoptedStyleSheets
LinkArrives(c, ok) ==
  /\ calls[c].pc = "link"
  /\ LET call == calls[c]
         link == Head(call.links)
     IN  calls' = [calls EXCEPT ![c] =
           IF ~ok THEN linkFailed(call)
           ELSE IF link.node.text = "empty" THEN EnterStyles([call EXCEPT !.links = Tail(@)])
           ELSE EnterStyles([call EXCEPT
                  !.links = Tail(@),
                  !.adoptedStyleSheets = Append(@, cssStyleSheetFromText(link)),
                  !.warnings = IF link.node.text = "bad" THEN @ + 1 ELSE @,
                  !.tree = Without(@, link)])]
  /\ UNCHANGED <<signalVars, rw, dc, el, registry, record, head, classes>>

\* collectAdoptedStyleSheets has returned: loadComponent goes on to evaluateModules
StylesCollected(c) ==
  /\ calls[c].pc = "modules"
  /\ calls' = [calls EXCEPT ![c] = EnterModules(Step(@, "evaluateModules", 0))]
  /\ UNCHANGED <<signalVars, rw, dc, el, registry, record, head, classes>>

\* the request and the dynamic import of one module script settle
ModuleEvaluated(c, ok) ==
  /\ calls[c].pc = "esm"
  /\ calls' = [calls EXCEPT ![c] =
       IF ok THEN EnterModules([@ EXCEPT !.scripts = Tail(@)])
       ELSE [@ EXCEPT !.pc = "rejected", !.error = "module"]]
  /\ UNCHANGED <<signalVars, rw, dc, el, registry, record, head, classes>>

\* customElements.define of the platform: a name can be defined once
CanDefine(name) == name \notin DOMAIN registry

\* the mutant of customElements.define: the definition is not entered
DefineIgnored(reg, name, cec) == reg

\* customElements.define(name, cec) for a name that is not defined
customElementsDefine(reg, name, cec) == MapSet(reg, name, cec)

\* evaluateModules has returned: the rest of loadComponent, through define()
Define(c) ==
  /\ calls[c].pc = "define"
  /\ LET call == StepAll(calls[c], <<"relocateScripts", "selectBase", "extendsElement",
                                    "customElements.define">>)
         cec == NextCec
     IN  /\ classes' = MapSet(classes, cec,
                         [adoptedStyleSheets |-> call.adoptedStyleSheets, url |-> call.url])
         /\ IF CanDefine(call.name)
              THEN /\ registry' = customElementsDefine(registry, call.name, cec)
                   /\ record' = MapSet(record, call.name, [cec |-> cec, url |-> call.url])
                   /\ calls' = [calls EXCEPT ![c] =
                        [StepAll(call, <<"component-defined", "record">>) EXCEPT
                           !.pc = "resolved", !.cec = cec]]
              ELSE /\ calls' = [calls EXCEPT ![c] =
                        [call EXCEPT !.pc = "rejected", !.error = "define"]]
                   /\ UNCHANGED <<registry, record>>
  /\ UNCHANGED <<signalVars, rw, dc, el, head>>

\* the dedup check of loadComponent for a registry and a record given
DedupCheckAt(reg, rec, name, url) ==
  IF name \in DOMAIN reg THEN
    IF name \notin DOMAIN rec THEN "conflict"
    ELSE IF rec[name].url = url THEN "cached"
    ELSE "load"
  ELSE "load"

\* loadComponent(name, url) called by a listener while an event is dispatched, as
\* call d: up to its first await, with the registry and the record of that moment
ListenerCall(d, reg, rec, name, url) ==
  LET resolved == URLResolve(url, url)
      started == StepAll([calls[d] EXCEPT
                    !.name = name, !.url = resolved,
                    !.sawDefined = name \in DOMAIN reg,
                    !.sawUrl = IF name \in DOMAIN rec THEN rec[name].url ELSE <<>>],
                    <<"resolve", "component-loading", "dedup">>)
      dedup == DedupCheckAt(reg, rec, name, resolved)
  IN IF dedup = "conflict"
       THEN [started EXCEPT !.pc = "rejected", !.error = "name-in-use"]
     ELSE IF dedup = "cached"
       THEN [started EXCEPT !.pc = "resolved", !.cec = rec[name].cec]
     ELSE [Step(started, "requestText", 0) EXCEPT !.pc = "requestText", !.fetches = 1]

\* the rest of loadComponent as in Define, for a name that can be defined, with a
\* listener of component-defined that calls loadComponent(detail.name, detail.url):
\* dispatchEvent runs the listener between customElements.define and
\* loadedComponentsRecord.set
DefineNotified(c, d) ==
  /\ calls[c].pc = "define"
  /\ CanDefine(calls[c].name)
  /\ d # c
  /\ calls[d].pc = "idle"
  /\ \A k \in 1..(d - 1) : calls[k].pc # "idle"
  /\ LET call == StepAll(calls[c], <<"relocateScripts", "selectBase", "extendsElement",
                                    "customElements.define", "component-defined",
                                    "record">>)
         cec == NextCec
     IN  /\ classes' = MapSet(classes, cec,
                         [adoptedStyleSheets |-> call.adoptedStyleSheets, url |-> call.url])
         /\ registry' = customElementsDefine(registry, call.name, cec)
         /\ record' = MapSet(record, call.name, [cec |-> cec, url |-> call.url])
         /\ calls' = [calls EXCEPT
               ![c] = [call EXCEPT !.pc = "resolved", !.cec = cec],
               ![d] = ListenerCall(d, customElementsDefine(registry, call.name, cec),
                                   record, call.name, call.url)]
  /\ UNCHANGED <<signalVars, rw, dc, el, head>>

\* code outside the loader defines a custom element
ExternalDefine(name) ==
  /\ CanDefine(name)
  /\ classes' = MapSet(classes, NextCec, [adoptedStyleSheets |-> <<>>, url |-> <<>>])
  /\ registry' = MapSet(registry, name, NextCec)
  /\ UNCHANGED <<signalVars, rw, dc, el, record, calls, head>>

\* ------------------------------------------------------------------ component class
\* What a module script can export: the names default and x.  The values: 0, a plain
\* object, HTMLElement itself, and three classes that extend HTMLElement: one whose
\* constructor attaches no shadow root, one whose constructor attaches an open one, one
\* whose constructor attaches a closed one.
ExportNames == {"default", "x"}
ElementClasses == {"NoShadow", "OpenShadow", "ClosedShadow"}
ExportValues ==
  [default |-> {"0", "object", "HTMLElement"} \cup ElementClasses, x |-> {"1", "2"}]
NoExport == "undefined"

\* the module namespace objects
Namespaces ==
  UNION { {ns \in [S -> UNION {ExportValues[n] : n \in ExportNames}] :
             \A n \in S : ns[n] \in ExportValues[n]} : S \in SUBSET ExportNames }

NoShadowRoot == [mode |-> "none", innerHTML |-> "", adoptedStyleSheets |-> <<>>]

\* scripts: the module scripts evaluateModules has yet to take; tree: the module scripts
\* in the component tree; adoptedStyleSheets, afterConstructor: what loadComponent
\* collected and was given; history: evaluated (the namespaces imported, in order),
\* warned, and for the last instance what ran, in order (log), its shadow root, the
\* this values afterConstructor was called with, and whether the constructor threw
ElIdle == [pc |-> "idle", scripts |-> <<>>, tree |-> <<>>, result |-> [n \in {} |-> ""],
           evaluated |-> <<>>, adoptedStyleSheets |-> <<>>, afterConstructor |-> FALSE,
           warned |-> FALSE, base |-> "", registered |-> FALSE,
           instances |-> 0, log |-> <<>>, shadow |-> NoShadowRoot, afterThis |-> <<>>,
           thrown |-> FALSE]

\* loadComponent up to the call of evaluateModules, for a document with n module
\* scripts
ElParsed(n, sheets, afterConstructor) ==
  /\ el.pc = "idle"
  /\ el' = [el EXCEPT !.pc = "modules", !.scripts = [k \in 1..n |-> k],
                      !.tree = [k \in 1..n |-> k], !.adoptedStyleSheets = sheets,
                      !.afterConstructor = afterConstructor]
  /\ UNCHANGED <<signalVars, rw, dc, registry, record, calls, head, classes>>

\* the mutant of Object.assign: a name already in the target is kept
AssignKeepsEarlier(target, source) ==
  [n \in DOMAIN target \cup DOMAIN source |->
     IF n \in DOMAIN target THEN target[n] ELSE source[n]]

\* Object.assign(target, source)
ObjectAssign(target, source) ==
  [n \in DOMAIN target \cup DOMAIN source |->
     IF n \in DOMAIN source THEN source[n] ELSE target[n]]

\* one turn of the loop of evaluateModules: the script's module is imported and gives
\* the namespace module; Object.assign(result, module); script.remove()
evaluateModules(module) ==
  /\ el.pc = "modules"
  /\ el.scripts # <<>>
  /\ el' = [el EXCEPT !.result = ObjectAssign(@, module),
                      !.tree = SelectSeq(@, LAMBDA s : s # Head(el.scripts)),
                      !.scripts = Tail(@),
                      !.evaluated = Append(@, module)]
  /\ UNCHANGED <<signalVars, rw, dc, registry, record, calls, head, classes>>

\* result.default
DefaultOf(result) == IF "default" \in DOMAIN result THEN result["default"] ELSE NoExport

\* component?.prototype instanceof HTMLElement
defaultExportIsComponent(component) == component \in ElementClasses

\* the truthiness of component in if (component && ...)
Truthy(component) == component \notin {NoExport, "0"}

\* the mutant of the choice of the base class: every truthy default export is extended
BaseAnyExport(component) == IF ~Truthy(component) THEN "HTMLElement" ELSE component

\* if (!component || !defaultExportIsComponent) define(HTMLElement) else define(component)
BaseClass(component) ==
  IF ~Truthy(component) \/ ~defaultExportIsComponent(component)
    THEN "HTMLElement"
    ELSE component

\* loadComponent after evaluateModules returned: the warning, the choice of the base
\* class, extendsElement, customElements.define
selectBase ==
  /\ el.pc = "modules"
  /\ el.scripts = <<>>
  /\ el' = [el EXCEPT !.pc = "defined",
                      !.warned = /\ Truthy(DefaultOf(el.result))
                                 /\ ~defaultExportIsComponent(DefaultOf(el.result)),
                      !.base = BaseClass(DefaultOf(el.result)),
                      !.registered = TRUE]
  /\ UNCHANGED <<signalVars, rw, dc, registry, record, calls, head, classes>>

\* super(innerHTML, adoptedStyleSheets): what the constructor of the base class leaves
\* as the element's shadow root
SuperShadow(base) ==
  IF base = "OpenShadow"
    THEN [mode |-> "open", innerHTML |-> "own", adoptedStyleSheets |-> <<>>]
  ELSE IF base = "ClosedShadow"
    THEN [mode |-> "closed", innerHTML |-> "own", adoptedStyleSheets |-> <<>>]
  ELSE NoShadowRoot

\* this.shadowRoot is null for an element without a shadow root and for one whose
\* shadow root is closed
shadowRootIsNull(shadow) == shadow.mode # "open"

\* the constructor of the synthesized class after super() returned, for an element
\* with the shadow root s: attachShadow throws on an element that has a shadow root
Constructed(s) ==
  IF shadowRootIsNull(s) /\ s.mode # "none"
    THEN [el EXCEPT !.pc = "constructed", !.instances = @ + 1,
                    !.log = <<"super", "attachShadow">>, !.shadow = s,
                    !.afterThis = <<>>, !.thrown = TRUE]
    ELSE [el EXCEPT !.pc = "constructed", !.instances = @ + 1,
                    !.log = <<"super">>
                              \o (IF shadowRootIsNull(s) THEN <<"attachShadow">> ELSE <<>>)
                              \o (IF el.afterConstructor THEN <<"afterConstructor">>
                                                         ELSE <<>>),
                    !.shadow = IF shadowRootIsNull(s)
                                 THEN [mode |-> "open", innerHTML |-> "template",
                                       adoptedStyleSheets |-> el.adoptedStyleSheets]
                                 ELSE s,
                    !.afterThis = IF el.afterConstructor THEN <<el.instances + 1>>
                                                         ELSE <<>>,
                    !.thrown = FALSE]

\* new cec(): the constructor of the class that extendsElement returned
extendsElement ==
  /\ el.pc \in {"defined", "constructed"}
  /\ el.instances < MaxInstances
  /\ el' = Constructed(SuperShadow(el.base))
  /\ UNCHANGED <<signalVars, rw, dc, registry, record, calls, head, classes>>

\* ------------------------------------------------------------------ signal graph
\* The signals and the computed of the bounded universe:
\*   [a, setA] = signal(0); [cond, setCond] = signal(1); [list, setList] = signal(ARR1);
\*   c = computed(() => a() + 1); s = computed(() => s() + 1);
\*   p = computed(() => q()); q = computed(() => p())
Signals == {"a", "cond", "list"}

ComputedList == <<"c", "s", "p", "q">>

Computeds == {ComputedList[k] : k \in DOMAIN ComputedList}

Deps == Signals \cup Computeds

\* the array objects a #for source can hold, by identity; any other value is no array
Arrays == << <<1, 2, 3>>, <<1, 2>>, <<>> >>

\* Set and Array operations the code uses (a JavaScript Set iterates in insertion order)
Includes(q, x) == \E k \in DOMAIN q : q[k] = x

SetAdd(q, x) == IF Includes(q, x) THEN q ELSE Append(q, x)

SetDelete(q, x) == SelectSeq(q, LAMBDA y : y # x)

Count(q, x) == Cardinality({k \in DOMAIN q : q[k] = x})

\* the module state of signals.ts, and of the bound template, as one value that the
\* synchronous code below transforms; trace starts empty at every step
Machine ==
  [value |-> value, subscribers |-> subscribers, effects |-> effects,
   jobQueue |-> jobQueue, isFlushPending |-> isFlushPending, microtasks |-> microtasks,
   activeEffect |-> activeEffect, activeScope |-> activeScope, computeds |-> computeds,
   scopes |-> scopes, dom |-> dom, trace |-> <<>>, thrown |-> FALSE]

Commit(m, o) ==
  /\ value' = m.value
  /\ subscribers' = m.subscribers
  /\ effects' = m.effects
  /\ jobQueue' = m.jobQueue
  /\ isFlushPending' = m.isFlushPending
  /\ microtasks' = m.microtasks
  /\ activeEffect' = m.activeEffect
  /\ activeScope' = m.activeScope
  /\ computeds' = m.computeds
  /\ scopes' = m.scopes
  /\ dom' = m.dom
  /\ trace' = IF m.thrown THEN Append(m.trace, [t |-> "uncaught", id |-> 0]) ELSE m.trace
  /\ op' = o

\* history: the step executed an effect body ("run"), entered a computed's read
\* ("read"), called a computed's function ("fn") or warned ("warn")
Log(m, t, id) == [m EXCEPT !.trace = Append(@, [t |-> t, id |-> id])]

TrackForgetsDep(m, d) ==
  IF m.activeEffect = 0 THEN m
  ELSE [m EXCEPT !.subscribers[d] = SetAdd(@, m.activeEffect),
                 !.effects[m.activeEffect].read = @ \cup {d},
                 !.effects[m.activeEffect].within = @ \cup {d}]

\* if (activeEffect) { subscribers.add(activeEffect); activeEffect.deps.add(subscribers) }
\* (history: effects[e].read is what e read since its latest run began, and
\* effects[e].within what was read by anyone while that run was executing)
track(m, d) ==
  IF m.activeEffect = 0 THEN m
  ELSE [m EXCEPT !.subscribers[d] = SetAdd(@, m.activeEffect),
                 !.effects[m.activeEffect].deps = @ \cup {d},
                 !.effects[m.activeEffect].read = @ \cup {d},
                 !.effects[m.activeEffect].within = @ \cup {d}]

CleanupKeepsSubscriptions(m, e) == [m EXCEPT !.effects[e].deps = {}]

cleanup(m, e) ==
  [m EXCEPT !.subscribers = [d \in DOMAIN m.subscribers |->
                               IF d \in m.effects[e].deps
                               THEN SetDelete(m.subscribers[d], e)
                               ELSE m.subscribers[d]],
            !.effects[e].deps = {}]

QueueJobNoDedup(m, job) ==
  LET q == [m EXCEPT !.jobQueue = Append(@, job)]
  IN IF ~q.isFlushPending
     THEN [q EXCEPT !.isFlushPending = TRUE, !.microtasks = @ + 1]
     ELSE q

\* (history: a call for a job that is already queued leaves a "dup" event)
queueJob(m, job) ==
  LET q == IF Includes(m.jobQueue, job) THEN Log(m, "dup", job)
           ELSE [m EXCEPT !.jobQueue = Append(@, job)]
  IN IF ~q.isFlushPending
     THEN [q EXCEPT !.isFlushPending = TRUE, !.microtasks = @ + 1]
     ELSE q

RECURSIVE trigger(_, _)
RECURSIVE run(_, _)
RECURSIVE effect(_, _)

\* the mutant of a computed's runner: the subscribers are notified, the computed is
\* not marked dirty
RunnerKeepsClean(m, c) == trigger(m, m.subscribers[c])

\* a computed's runner: mark dirty and notify the computed's own subscribers
runner(m, c) ==
  IF ~m.computeds[c].dirty
  THEN trigger([m EXCEPT !.computeds[c].dirty = TRUE], m.subscribers[c])
  ELSE m

\* calling the ReactiveEffect e: a computed's runner, or the wrapper effect() built
Invoke(m, e) ==
  IF m.effects[e].body.kind = "runner"
  THEN runner(m, m.effects[e].body.of)
  ELSE run(m, e)

\* effectsToRun.forEach over the snapshot new Set(subscribers)
trigger(m, effectsToRun) ==
  IF effectsToRun = <<>> \/ m.thrown THEN m
  ELSE LET e == Head(effectsToRun)
       IN trigger(IF m.effects[e].scheduler THEN queueJob(m, e) ELSE Invoke(m, e),
                  Tail(effectsToRun))

\* what each computed's function reads, and what it adds to the value read
FnReads(c) ==
  CASE c = "c" -> <<"a">>
    [] c = "s" -> <<"s">>
    [] c = "p" -> <<"q">>
    [] c = "q" -> <<"p">>

FnAdds(c) == IF c \in {"c", "s"} THEN 1 ELSE 0

\* history: a dependency of the computed changed since its function last ran
MarkStale(m, s) ==
  [m EXCEPT !.computeds = [c \in DOMAIN m.computeds |->
                             IF Includes(FnReads(c), s)
                             THEN [m.computeds[c] EXCEPT !.stale = TRUE]
                             ELSE m.computeds[c]]]

\* a signal's read
read(m, s) == track(m, s)

\* a signal's write
write(m, s, newValue) ==
  IF m.value[s] # newValue
  THEN trigger(MarkStale([m EXCEPT !.value[s] = newValue], s), m.subscribers[s])
  ELSE m

AlwaysDirty(m, c) == TRUE

IsDirty(m, c) == m.computeds[c].dirty

ReentrantReadReturns(m, c) == m

\* throw new Error("Circular dependency detected in computed")
\* (thrown: an exception is propagating up the call stack)
throwCircular(m, c) == [Log(m, "throw", m.computeds[c].internalEffect) EXCEPT !.thrown = TRUE]

RECURSIVE computedRead(_, _)

ReadDep(m, d) == IF d \in Computeds THEN computedRead(m, d) ELSE read(m, d)

ValueOf(m, d) == IF d \in Computeds THEN m.computeds[d].value ELSE m.value[d]

\* the reads of an expression, in order, up to the first that throws
RECURSIVE ReadAll(_, _)
ReadAll(m, ds) ==
  IF ds = <<>> \/ m.thrown THEN m ELSE ReadAll(ReadDep(m, Head(ds)), Tail(ds))

\* value = fn(); dirty = false (history: "fn" when fn is entered, "ret" when it has
\* returned or thrown)
fnReturns(r, c) ==
  LET ie == r.computeds[c].internalEffect
  IN IF r.thrown THEN Log(r, "ret", ie)
     ELSE [Log(r, "ret", ie) EXCEPT
             !.computeds[c].value = ValueOf(r, FnReads(c)[1]) + FnAdds(c),
             !.computeds[c].stale = FALSE,
             !.computeds[c].dirty = FALSE]

fn(m, c) ==
  fnReturns(ReadAll(Log(m, "fn", m.computeds[c].internalEffect), FnReads(c)), c)

\* the mutant of the finally block of a computed's read: the two resets are made
\* after fn() returned, not in finally
LeaveOnReturnOnly(s3, c, prevEffect) ==
  LET ie == s3.computeds[c].internalEffect
      s4 == [s3 EXCEPT !.activeEffect = prevEffect,
                       !.computeds[c].isComputing = FALSE]
  IN IF s3.thrown THEN s3
     ELSE IF prevEffect = 0 THEN s4
     ELSE [s4 EXCEPT !.effects[prevEffect].within = @ \cup s3.effects[ie].read]

\* a computed's read
\* finally { activeEffect = prevEffect; isComputing = false }
computedLeave(s3, c, prevEffect) ==
  LET ie == s3.computeds[c].internalEffect
      s4 == [s3 EXCEPT !.activeEffect = prevEffect,
                       !.computeds[c].isComputing = FALSE]
  IN IF prevEffect = 0 THEN s4
     ELSE [s4 EXCEPT !.effects[prevEffect].within = @ \cup s3.effects[ie].read]

\* if (dirty) { isComputing = true; activeEffect = internalEffect; cleanup; fn() }
computedEnter(t, c) ==
  LET ie == t.computeds[c].internalEffect
      s1 == [t EXCEPT !.computeds[c].isComputing = TRUE, !.activeEffect = ie]
  IN [cleanup(s1, ie) EXCEPT !.effects[ie].read = {}]

computedTracked(t, c) ==
  IF ~IsDirty(t, c) THEN t
  ELSE computedLeave(fn(computedEnter(t, c), c), c, t.activeEffect)

computedRead(m, c) ==
  IF m.computeds[c].isComputing
  THEN throwCircular(Log(m, "read", m.computeds[c].internalEffect), c)
  ELSE computedTracked(track(Log(m, "read", m.computeds[c].internalEffect), c), c)

\* the stop function effect() returns (effects[e].stopped is history)
stop(m, e) == [cleanup(m, e) EXCEPT !.effects[e].stopped = TRUE]

RECURSIVE StopAll(_, _)
StopAll(m, es) == IF es = <<>> THEN m ELSE StopAll(stop(m, Head(es)), Tail(es))

\* EffectScope.add (history: scopes[sc].members, the effects ever added to the scope)
scopeAdd(m, sc, e) ==
  IF m.scopes[sc].active
  THEN [m EXCEPT !.scopes[sc].effects = Append(@, e), !.scopes[sc].members = @ \cup {e}]
  ELSE [stop(m, e) EXCEPT !.scopes[sc].members = @ \cup {e}]

\* EffectScope.stop
scopeStop(m, sc) ==
  IF m.scopes[sc].active
  THEN [StopAll(m, m.scopes[sc].effects) EXCEPT !.scopes[sc].effects = <<>>,
                                                  !.scopes[sc].active = FALSE]
  ELSE m

\* the bodies of the effects of this universe
Expr(guard, reads, node) ==
  [kind |-> "expr", of |-> "", guard |-> guard, reads |-> reads, node |-> node,
   partial |-> FALSE, sets |-> ""]

\* an expression such as table[a()].name with table = [{name}]: it throws a TypeError
\* when the value it read last is not 0
PartialExpr(reads, node) == [Expr("", reads, node) EXCEPT !.partial = TRUE]

\* an effect that writes a signal: effect(() => setS(d()))
SetterExpr(d, s) == [Expr("", <<d>>, 0) EXCEPT !.sets = s]

ForEffect ==
  [kind |-> "for", of |-> "", guard |-> "", reads |-> <<>>, node |-> 0, partial |-> FALSE,
   sets |-> ""]

IfEffect ==
  [kind |-> "if", of |-> "", guard |-> "", reads |-> <<>>, node |-> 0, partial |-> FALSE,
   sets |-> ""]

RunnerOf(c) ==
  [kind |-> "runner", of |-> c, guard |-> "", reads |-> <<>>, node |-> 0, partial |-> FALSE,
   sets |-> ""]

\* effect(() => log.push(a())), effect(() => { if (cond()) a() }),
\* effect(() => c()), effect(() => { a(); c() })
UserBodies ==
  { Expr("", <<"a">>, 0), Expr("cond", <<"a">>, 0),
    Expr("", <<"c">>, 0), Expr("", <<"a", "c">>, 0) }

\* effects over every computed: effect(() => c()), effect(() => s()),
\* effect(() => p()), effect(() => { a(); q() })
ComputedBodies ==
  { Expr("", <<"c">>, 0), Expr("", <<"s">>, 0), Expr("", <<"p">>, 0),
    Expr("", <<"a", "q">>, 0) }

\* the effects created alone and in scopes: effect(() => a()),
\* effect(() => { if (cond()) a() })
ScopeBodies == { Expr("", <<"a">>, 0), Expr("cond", <<"a">>, 0) }

\* effects that enqueue others while they run: effect(() => a()),
\* effect(() => cond()), effect(() => setCond(a())), effect(() => setA(cond()))
FlushBodies ==
  { Expr("", <<"a">>, 0), Expr("", <<"cond">>, 0), SetterExpr("a", "cond"),
    SetterExpr("cond", "a") }

\* the {{ }} expression of the #for element's text: {{ name }} (the item's own field),
\* {{ a() }}, {{ list().length }}, {{ table[a()].name }}
Templates ==
  { [reads |-> <<>>, partial |-> FALSE], [reads |-> <<"a">>, partial |-> FALSE],
    [reads |-> <<"list">>, partial |-> FALSE], [reads |-> <<"a">>, partial |-> TRUE] }

\* String(undefined), what a text node shows after evalExpr caught an exception, and
\* the text of a freshly created node of a dynamic part
Undefined == 0 - 1

EmptyText == 0 - 2

\* new EffectScope()
NewScope == [effects |-> <<>>, active |-> TRUE, members |-> {}]

\* recursive(nodes) of reactiveNodes: the template root holds the element with
\* #for="list()"; an item clone holds one text node with one dynamic part
recursive(m, node) ==
  IF node = 0 /\ m.dom.directive = "if"
  THEN [effect(m, IfEffect) EXCEPT !.dom.ifEffect = Len(m.effects) + 1]
  ELSE IF node = 0
  THEN LET s == effect(m, ForEffect)
       IN [s EXCEPT !.dom.forEffect = Len(m.effects) + 1]
  ELSE effect(m, [Expr("", m.dom.template.reads, node) EXCEPT
                    !.partial = m.dom.template.partial])

\* reactiveNodes(nodes, context) = effectScope(() => recursive(nodes)); the scope it
\* creates is Len(m.scopes) + 1, and the function it returns stops that scope
reactiveNodes(m, node) ==
  LET sc == Len(m.scopes) + 1
      s1 == [m EXCEPT !.scopes = Append(@, NewScope), !.activeScope = sc]
      s2 == recursive(s1, node)
  IN [s2 EXCEPT !.activeScope = m.activeScope]

\* renderedItems.forEach(({node, cleanup}) => { cleanup(); node.remove() })
RECURSIVE ClearRendered(_, _)
ClearRendered(m, items) ==
  IF items = <<>> THEN [m EXCEPT !.dom.renderedItems = <<>>]
  ELSE LET s == scopeStop(m, Head(items).cleanup)
       IN ClearRendered([s EXCEPT !.dom.children = SetDelete(@, Head(items).node)],
                        Tail(items))

\* contexts.forEach: clone, bind, insert before placeholder.nextSibling, push
RECURSIVE RenderEach(_, _)
RenderEach(m, contexts) ==
  IF contexts = <<>> THEN m
  ELSE LET clone == Len(m.dom.nodes) + 1
           s1 == [m EXCEPT !.dom.nodes = Append(@, [item |-> Head(contexts), text |-> EmptyText])]
       IN RenderEach([reactiveNodes(s1, clone) EXCEPT
                        !.dom.children = <<clone>> \o @,
                        !.dom.renderedItems =
                           Append(@, [node |-> clone, cleanup |-> Len(m.scopes) + 1])],
                     Tail(contexts))

\* the #for effect
ForBody(m) ==
  LET s == read(m, "list")
      contexts == s.value["list"]
  IN IF contexts \notin DOMAIN Arrays
     THEN Log(s, "warn", 0)
     ELSE RenderEach(ClearRendered(s, s.dom.renderedItems), Arrays[contexts])

\* the #if effect with the clone not rendered: clone the template, bind it, insert it
IfMount(s) ==
  [reactiveNodes([s EXCEPT !.dom.nodes = Append(@, [item |-> 0, text |-> EmptyText])],
                 Len(s.dom.nodes) + 1)
     EXCEPT !.dom.children = <<Len(s.dom.nodes) + 1>> \o @,
            !.dom.renderedNode = Len(s.dom.nodes) + 1,
            !.dom.ifCleanup = Len(s.scopes) + 1]

\* the #if effect with the clone rendered: cleanup(), renderedNode.remove()
IfUnmount(s) ==
  [scopeStop(s, s.dom.ifCleanup)
     EXCEPT !.dom.children = SetDelete(@, s.dom.renderedNode),
            !.dom.renderedNode = 0,
            !.dom.ifCleanup = 0]

\* (history: dom.condition is whether the latest evaluation of the condition was truthy)
IfEvaluated(s) ==
  IF s.value["cond"] # 0
  THEN IF s.dom.renderedNode = 0
       THEN [IfMount(s) EXCEPT !.dom.condition = TRUE]
       ELSE [s EXCEPT !.dom.condition = TRUE]
  ELSE IF s.dom.renderedNode # 0
       THEN [IfUnmount(s) EXCEPT !.dom.condition = FALSE]
       ELSE [s EXCEPT !.dom.condition = FALSE]

\* the #if effect of <p #if="cond()">: condition = evalExpr("cond()")
IfBody(m) == IfEvaluated(read(m, "cond"))

\* the reads an expression makes and the exception it may throw
EvaluateMember(s2, b) ==
  IF ~s2.thrown /\ b.partial /\ ValueOf(s2, b.reads[Len(b.reads)]) # 0
  THEN [Log(s2, "throw", 0) EXCEPT !.thrown = TRUE]
  ELSE s2

EvaluateGuarded(s1, b) ==
  IF s1.thrown THEN s1
  ELSE IF b.guard = "" \/ ValueOf(s1, b.guard) # 0 THEN ReadAll(s1, b.reads)
  ELSE s1

Evaluate(m, b) ==
  EvaluateMember(EvaluateGuarded(IF b.guard = "" THEN m ELSE ReadDep(m, b.guard), b), b)

\* an expression effect: a user effect evaluates its expression and lets an exception
\* propagate; a text binding evaluates through evalExpr, which catches, and then
\* writes textContent = String(value)
ExprEvaluated(s, e) ==
  LET b == s.effects[e].body
  IN IF b.node = 0
     THEN IF b.sets = "" \/ s.thrown THEN s
          ELSE write(s, b.sets, ValueOf(s, b.reads[Len(b.reads)]))
     ELSE IF s.thrown
          THEN [Log(s, "warn", e) EXCEPT !.thrown = FALSE,
                                         !.dom.nodes[b.node].text = Undefined]
          ELSE [s EXCEPT !.dom.nodes[b.node].text =
                           IF b.reads = <<>> THEN s.dom.nodes[b.node].item
                           ELSE ValueOf(s, b.reads[Len(b.reads)])]

ExprBody(m, e) == ExprEvaluated(Evaluate(m, m.effects[e].body), e)

body(m, e) ==
  IF m.effects[e].body.kind = "for" THEN ForBody(m)
  ELSE IF m.effects[e].body.kind = "if" THEN IfBody(m)
  ELSE ExprBody(m, e)

\* the wrapper effect() builds: cleanup, then fn() under activeEffect = effect
run(m, e) ==
  [body([cleanup(Log(m, "run", e), e) EXCEPT !.effects[e].read = {},
                                              !.effects[e].within = {},
                                              !.activeEffect = e], e)
     EXCEPT !.activeEffect = m.activeEffect]

\* if (activeScope) activeScope.add(stop), after the first run has returned
effectCreated(s2, e) ==
  IF ~s2.thrown /\ s2.activeScope # 0 THEN scopeAdd(s2, s2.activeScope, e) ELSE s2

effect(m, b) ==
  effectCreated(
    run([m EXCEPT !.effects = Append(@, [deps |-> {}, read |-> {}, within |-> {},
                                         scheduler |-> TRUE,
                                         stopped |-> FALSE, body |-> b])],
        Len(m.effects) + 1),
    Len(m.effects) + 1)

\* effectScope(() => { effect(b1); effect(b2); ... }); the scope it creates is
\* Len(m.scopes) + 1, and the function it returns stops that scope
RECURSIVE CreateAll(_, _)
CreateAll(m, bodies) ==
  IF bodies = <<>> \/ m.thrown THEN m ELSE CreateAll(effect(m, Head(bodies)), Tail(bodies))

effectScope(m, bodies) ==
  [CreateAll([m EXCEPT !.scopes = Append(@, NewScope),
                       !.activeScope = Len(m.scopes) + 1], bodies)
     EXCEPT !.activeScope = m.activeScope]

RECURSIVE RunJobs(_, _)
RunJobs(m, jobs) ==
  IF jobs = <<>> \/ m.thrown THEN m ELSE RunJobs(Invoke(m, Head(jobs)), Tail(jobs))

FlushKeepsQueue(m) == RunJobs([m EXCEPT !.isFlushPending = FALSE], m.jobQueue)

flushJobs(m) ==
  RunJobs([m EXCEPT !.isFlushPending = FALSE, !.jobQueue = <<>>], m.jobQueue)

\* ---- the steps of the signal graph
\* the effects made by effect(), as opposed to the computeds' internal effects
UserEffects == {e \in DOMAIN effects : effects[e].scheduler}

\* history: the step taken, the signal or computed it addressed, the value written
Op(name, sig, val) == [name |-> name, sig |-> sig, val |-> val]

\* user code calls effect(fn)
CreateEffect(b) ==
  /\ Cardinality(UserEffects) < MaxUserEffects
  /\ Commit(effect(Machine, b), Op("effect", "", 0))
  /\ UNCHANGED <<rw, dc, loaderVars>>

\* user code writes a signal
WriteSignal(s, v) ==
  /\ Cardinality(UserEffects) < MaxEffects
  /\ Commit(write(Machine, s, v), Op("write", s, v))
  /\ UNCHANGED <<rw, dc, loaderVars>>

\* user code reads the computed outside any effect
ReadComputed(c) ==
  /\ Commit(computedRead(Machine, c), Op("read", c, 0))
  /\ UNCHANGED <<rw, dc, loaderVars>>

\* the microtask Promise.resolve().then(flushJobs) runs
Flush ==
  /\ microtasks > 0
  /\ Commit(flushJobs([Machine EXCEPT !.microtasks = @ - 1]), Op("flush", "", 0))
  /\ UNCHANGED <<rw, dc, loaderVars>>

\* user code calls effectScope(setup), the setup creating the effects of bodies
ScopeSetup(bodies) ==
  /\ Cardinality(UserEffects) + Len(bodies) <= MaxUserEffects
  /\ Len(scopes) < MaxScopes
  /\ Commit(effectScope(Machine, bodies), Op("scope", "", Len(scopes) + 1))
  /\ UNCHANGED <<rw, dc, loaderVars>>

\* user code calls the stop function that effect() returned for e
StopEffect(e) ==
  /\ e \in DOMAIN effects
  /\ effects[e].scheduler
  /\ Commit(stop(Machine, e), Op("stop", "", e))
  /\ UNCHANGED <<rw, dc, loaderVars>>

\* user code calls the stop function that effectScope() returned for sc
StopScope(sc) ==
  /\ sc \in DOMAIN scopes
  /\ Commit(scopeStop(Machine, sc), Op("scopeStop", "", sc))
  /\ UNCHANGED <<rw, dc, loaderVars>>

\* a component binds its template: reactiveNodes(root.childNodes, context)
Bind(template) ==
  /\ ~dom.bound
  /\ Commit(reactiveNodes([Machine EXCEPT !.dom.bound = TRUE, !.dom.template = template,
                                         !.dom.rootScope = Len(scopes) + 1], 0),
            Op("bind", "", 0))
  /\ UNCHANGED <<rw, dc, loaderVars>>

\* a component binds a template whose root holds <p #if="cond()">{{ ... }}</p>
BindIf(template) ==
  /\ ~dom.bound
  /\ Commit(reactiveNodes([Machine EXCEPT !.dom.bound = TRUE, !.dom.template = template,
                                         !.dom.directive = "if",
                                         !.dom.rootScope = Len(scopes) + 1], 0),
            Op("bind", "", 0))
  /\ UNCHANGED <<rw, dc, loaderVars>>

\* the component calls the function that reactiveNodes returned for its template
Teardown ==
  /\ dom.bound
  /\ Commit(scopeStop(Machine, dom.rootScope), Op("teardown", "", 0))
  /\ UNCHANGED <<rw, dc, loaderVars>>

\* ------------------------------------------------------------------ specifications
Init ==
  /\ rw = RwIdle
  /\ dc = DcIdle
  /\ registry = EmptyMap
  /\ record = EmptyMap
  /\ calls = [c \in CallIds |-> NoCall]
  /\ head = <<>>
  /\ classes = EmptyMap
  /\ el = ElIdle
  /\ value = [a |-> 0, cond |-> 1, list |-> 1]
  /\ subscribers = [d \in Deps |-> <<>>]
  /\ effects = [k \in DOMAIN ComputedList |->
                  [deps |-> {}, read |-> {}, within |-> {}, scheduler |-> FALSE,
                   stopped |-> FALSE, body |-> RunnerOf(ComputedList[k])]]
  /\ jobQueue = <<>>
  /\ isFlushPending = FALSE
  /\ microtasks = 0
  /\ activeEffect = 0
  /\ activeScope = 0
  /\ computeds = [c \in Computeds |->
                    [value |-> 0, dirty |-> TRUE, isComputing |-> FALSE,
                     internalEffect |-> CHOOSE k \in DOMAIN ComputedList : ComputedList[k] = c,
                     stale |-> TRUE]]
  /\ scopes = <<>>
  /\ dom = [bound |-> FALSE, template |-> [reads |-> <<>>, partial |-> FALSE], rootScope |-> 0, forEffect |-> 0,
            renderedItems |-> <<>>, children |-> <<>>, nodes |-> <<>>,
            directive |-> "for", ifEffect |-> 0, renderedNode |-> 0, ifCleanup |-> 0,
            condition |-> FALSE]
  /\ trace = <<>>
  /\ op = Op("none", "", 0)

\* the loader under concurrent calls
NextLoader ==
  \/ \E c \in CallIds, name \in Names, url \in UrlArgs, imp \in Importers :
       loadComponent(c, name, url, imp)
  \/ \E c \in CallIds, ok \in BOOLEAN : HtmlArrives(c, ok, PlainDocs)
  \/ \E c \in CallIds, ok \in BOOLEAN : LinkArrives(c, ok)
  \/ \E c \in CallIds : StylesCollected(c)
  \/ \E c \in CallIds, ok \in BOOLEAN : ModuleEvaluated(c, ok)
  \/ \E c \in CallIds : Define(c)
  \/ \E name \in Names : ExternalDefine(name)

Spec == Init /\ [][NextLoader]_vars

\* the loader with a listener of component-defined that loads the component announced
NextEvents ==
  \/ NextLoader
  \/ \E c, d \in CallIds : DefineNotified(c, d)

SpecEvents == Init /\ [][NextEvents]_vars

\* the module rewriter on every module of the bounded set
NextRewriter ==
  \/ \E specs \in Modules, u \in SourceUrls : EsmCall(specs, u)
  \/ EsmRewrite

SpecRewriter == Init /\ [][NextRewriter]_vars

\* defineComponent called from any stack of frames, before and after esm() has
\* created its blob modules
NextDefine ==
  \/ \E b \in EsmBlobs, u \in EsmSourceUrls : EsmRegisters(b, u)
  \/ \E f \in Files : EnterFrame(f)
  \/ LeaveFrame
  \/ defineComponent

SpecDefine == Init /\ [][NextDefine]_vars

\* one load from evaluateModules on, and instances of its class being constructed
NextElement ==
  \/ \E n \in 0..MaxModules, sheets \in {<<>>, <<1>>}, after \in BOOLEAN :
       ElParsed(n, sheets, after)
  \/ \E module \in Namespaces : evaluateModules(module)
  \/ selectBase
  \/ extendsElement

SpecElement == Init /\ [][NextElement]_vars

\* esm() creating and importing modules, code of the page, of helper modules, of the
\* library, of blob modules and of frames without a file calling into each other, and
\* loadComponent looking for its importer
NextEsm ==
  \/ \E b \in EsmBlobs, u \in EsmSourceUrls : EsmRegisters(b, u)
  \/ \E b \in EsmBlobs, ok \in BOOLEAN : ImportSettles(b, ok)
  \/ \E f \in Files \cup {LibFile, NoFile} : EnterFrame(f)
  \/ LeaveFrame
  \/ loadComponentImporter

SpecEsm == Init /\ [][NextEsm]_vars

\* one load of every component document of the bounded set
NextStyles ==
  \/ \E url \in UrlArgs, imp \in Importers : loadComponent(1, "x-a", url, imp)
  \/ \E ok \in BOOLEAN : HtmlArrives(1, ok, StyleDocs)
  \/ \E ok \in BOOLEAN : LinkArrives(1, ok)
  \/ StylesCollected(1)
  \/ Define(1)

SpecStyles == Init /\ [][NextStyles]_vars

\* one load of a document with links, styles and module scripts, every fetch and
\* every module evaluation succeeding or failing
NextPipeline ==
  \/ \E url \in UrlArgs, imp \in Importers : loadComponent(1, "x-a", url, imp)
  \/ \E ok \in BOOLEAN : HtmlArrives(1, ok, PipelineDocs)
  \/ \E ok \in BOOLEAN : LinkArrives(1, ok)
  \/ StylesCollected(1)
  \/ \E ok \in BOOLEAN : ModuleEvaluated(1, ok)
  \/ Define(1)

SpecPipeline == Init /\ [][NextPipeline]_vars

\* user code on the signal graph: effects, writes, reads of the computed, flushes
NextSignals ==
  \/ \E b \in UserBodies : CreateEffect(b)
  \/ \E s \in {"a", "cond"}, v \in {0, 1} : WriteSignal(s, v)
  \/ ReadComputed("c")
  \/ Flush

SpecSignals == Init /\ [][NextSignals]_vars

\* user code reading every computed, the self-referential ones included
NextReentrancy ==
  \/ \E c \in Computeds : ReadComputed(c)
  \/ \E b \in ComputedBodies : CreateEffect(b)
  \/ \E v \in {0, 1} : WriteSignal("a", v)
  \/ Flush

SpecReentrancy == Init /\ [][NextReentrancy]_vars

\* reads, effects and scope setups that throw: every computed read by user code, by
\* effects and by effects created in the setup of a scope
NextAmbient ==
  \/ NextReentrancy
  \/ \E bodies \in SeqsUpTo(ComputedBodies, MaxUserEffects) : ScopeSetup(bodies)

SpecAmbient == Init /\ [][NextAmbient]_vars

\* the microtask queue of the event loop: a scheduled flushJobs microtask is run.
\* This is WF_vars(Flush) written out: <<Flush>>_vars is enabled exactly when a
\* microtask is scheduled, and Flush is the only action that leaves op.name = "flush"
FlushRuns == []<>(microtasks = 0) \/ []<><<op'.name = "flush">>_vars

SpecReentrancyFair == SpecReentrancy /\ FlushRuns

\* flushes whose jobs write signals
NextFlush ==
  \/ \E b \in FlushBodies : CreateEffect(b)
  \/ \E s \in {"a", "cond"}, v \in {0, 1} : WriteSignal(s, v)
  \/ Flush

SpecFlush == Init /\ [][NextFlush]_vars

SpecFlushFair == SpecFlush /\ FlushRuns

\* user code creating effects, alone and in scopes, and stopping them
NextScopes ==
  \/ \E b \in ScopeBodies : CreateEffect(b)
  \/ \E bodies \in SeqsUpTo(ScopeBodies, MaxUserEffects) : ScopeSetup(bodies)
  \/ \E s \in {"a", "cond"}, v \in {0, 1} : WriteSignal(s, v)
  \/ \E e \in 1..(Len(ComputedList) + MaxUserEffects) : StopEffect(e)
  \/ \E sc \in 1..MaxScopes : StopScope(sc)
  \/ Flush

SpecScopes == Init /\ [][NextScopes]_vars

\* a bound template with a #for element, the signals it reads being written
NextBinder ==
  \/ \E t \in Templates : Bind(t)
  \/ \E v \in 0..Len(Arrays) : WriteSignal("list", v)
  \/ \E v \in {0, 1} : WriteSignal("a", v)
  \/ Flush
  \/ Teardown

SpecBinder == Init /\ [][NextBinder]_vars

\* the {{ }} expression inside the #if element: {{ a() }}, {{ cond() }}
IfTemplates ==
  { [reads |-> <<"a">>, partial |-> FALSE], [reads |-> <<"cond">>, partial |-> FALSE] }

\* a bound template with a #if element, its condition and the signal its text reads
\* being written
NextIf ==
  \/ \E t \in IfTemplates : BindIf(t)
  \/ \E s \in {"a", "cond"}, v \in {0, 1} : WriteSignal(s, v)
  \/ Flush

SpecIf == Init /\ [][NextIf]_vars

\* ------------------------------------------------------------------ claims: loader
Begins(c) == calls[c].pc = "idle" /\ calls'[c].pc # "idle"

Registers(c) == calls[c].pc = "define" /\ calls'[c].pc # "define"

\* C1 (idempotent load): a loadComponent call that begins when a call with the same
\* name and the same resolved URL has already resolved, resolves at once to the
\* identical constructor and performs no network fetch.
C1_IdempotentLoad ==
  [][\A c, d \in CallIds :
       ( /\ Begins(c)
         /\ calls[d].pc = "resolved"
         /\ calls'[c].name = calls[d].name
         /\ calls'[c].url = calls[d].url )
       => ( /\ calls'[c].pc = "resolved"
            /\ calls'[c].cec = calls[d].cec
            /\ calls'[c].fetches = 0 )]_vars

\* C1 witness: a second call with the same name and resolved URL was answered from
\* the record, without a fetch, with the constructor the first call registered.
C1_Witness ==
  \E c, d \in CallIds :
    /\ c # d
    /\ calls[d].pc = "resolved" /\ calls[d].fetches > 0
    /\ calls[c].pc = "resolved" /\ calls[c].fetches = 0
    /\ calls[c].name = calls[d].name /\ calls[c].url = calls[d].url
    /\ calls[c].cec = calls[d].cec

\* C2 (conflict detection): a loadComponent call for a name that is defined in the
\* registry but absent from the tracking record rejects with the naming-conflict
\* error, whatever the URL, fetches nothing and changes neither registry nor record.
C2_ConflictDetection ==
  [][\A c \in CallIds :
       ( /\ Begins(c)
         /\ calls'[c].name \in DOMAIN registry
         /\ calls'[c].name \notin DOMAIN record )
       => ( /\ calls'[c].pc = "rejected"
            /\ calls'[c].error = "name-in-use"
            /\ calls'[c].fetches = 0
            /\ registry' = registry
            /\ record' = record )]_vars

\* C2 witness: a call was rejected with the naming-conflict error.
C2_Witness ==
  \E c \in CallIds :
    /\ calls[c].pc = "rejected" /\ calls[c].error = "name-in-use"
    /\ calls[c].name \in DOMAIN registry /\ calls[c].name \notin DOMAIN record

\* C31 (registry/record consistency): every name in loadedComponentsRecord is defined
\* in the custom-element registry with the constructor that the record stores for it
\* (the record, a Map, holds one entry per name).
C31_RegistryRecordConsistency ==
  \A name \in DOMAIN record :
    /\ name \in DOMAIN registry
    /\ registry[name] = record[name].cec

\* two calls that fetched have registered the two names: both names are recorded, with
\* different constructors
C31_Witness ==
  /\ DOMAIN record = Names
  /\ \A c \in CallIds : calls[c].pc = "resolved" /\ calls[c].fetches > 0
  /\ \E n, k \in Names : record[n].cec # record[k].cec

\* C32 (tracking precedes notification): a listener of component-defined that calls
\* loadComponent with the event's name and URL while the event is dispatched finds
\* the name in the record with that URL and gets the constructor just registered.
C32_TrackingPrecedesNotification ==
  [][\A c, d \in CallIds :
       ( /\ Registers(c)
         /\ calls'[c].pc = "resolved"
         /\ d # c
         /\ Begins(d) )
       => ( /\ calls'[d].sawUrl = calls'[c].url
            /\ calls'[d].pc = "resolved"
            /\ calls'[d].cec = calls'[c].cec )]_vars

\* what the listener's call meets: the name defined and not in the record, hence the
\* naming-conflict error
C32_ListenerMeetsConflict ==
  [][\A c, d \in CallIds :
       ( /\ Registers(c)
         /\ calls'[c].pc = "resolved"
         /\ d # c
         /\ Begins(d) )
       => ( /\ calls'[d].sawDefined
            /\ calls'[d].sawUrl = <<>>
            /\ calls'[d].pc = "rejected"
            /\ calls'[d].error = "name-in-use" )]_vars

\* C9 (redefinition on a different URL), as claimed: a call that found its name
\* tracked with another URL runs the pipeline and, at its registration step,
\* registers its new constructor; the record then maps the name to its URL and
\* constructor.
C9_Redefinition ==
  [][\A c \in CallIds :
       ( /\ Registers(c)
         /\ calls[c].sawUrl # <<>>
         /\ calls[c].sawUrl # calls[c].url )
       => ( /\ calls'[c].pc = "resolved"
            /\ calls[c].fetches > 0
            /\ registry'[calls[c].name] = calls'[c].cec
            /\ record'[calls[c].name] = [cec |-> calls'[c].cec, url |-> calls[c].url] )]_vars

\* C10 (concurrent same-name loads), as claimed: of two calls for the same name that
\* both passed the dedup check while the name was undefined, the one that reaches
\* registration after the other has registered completes too, and registry and
\* record then hold its constructor and URL.
C10_LastRegistrationWins ==
  [][\A c, d \in CallIds :
       ( /\ c # d
         /\ calls[c].name = calls[d].name
         /\ ~calls[c].sawDefined /\ ~calls[d].sawDefined
         /\ calls[d].pc = "resolved"
         /\ Registers(c) )
       => ( /\ calls'[c].pc = "resolved"
            /\ registry'[calls[c].name] = calls'[c].cec
            /\ record'[calls[c].name] = [cec |-> calls'[c].cec, url |-> calls[c].url] )]_vars

Entered(call, step) == \E k \in DOMAIN call.steps : call.steps[k].step = step

\* C15 (primary fetch failure): when the fetch of the component document settles
\* without a document, the call rejects with the fetch error naming the resolved URL
\* and the loadComponent(name, url) call, registry and record are unchanged by the
\* step, and a call rejected so never registers or emits component-defined.
C15_PrimaryFetchFailure ==
  [][ \A c \in CallIds :
        /\ ( /\ calls[c].pc = "requestText"
             /\ calls'[c].pc # "requestText"
             /\ ~Entered(calls'[c], "parse") )
           => /\ calls'[c].pc = "rejected"
              /\ calls'[c].error = "fetch"
              /\ calls'[c].errorUrl = calls[c].url
              /\ calls'[c].errorSource = [name |-> calls[c].name, url |-> calls[c].url]
              /\ UNCHANGED <<registry, record>>
        /\ calls[c].error = "fetch"
           => /\ calls'[c] = calls[c]
              /\ ~Entered(calls[c], "customElements.define")
              /\ ~Entered(calls[c], "component-defined") ]_vars

\* a call rejected by the failed fetch of its document, beside a call that registered
C15_Witness ==
  \E c, d \in CallIds :
    /\ calls[c].pc = "rejected"
    /\ calls[c].error = "fetch"
    /\ calls[d].pc = "resolved"
    /\ Entered(calls[d], "component-defined")

\* ------------------------------------------------------------------ claims: styles
GlobalCount(doc) == Cardinality({k \in 1..Len(doc) : doc[k].node.global})

\* the non-global style sources the loader skips: empty ones, and links that failed
SkippedCount(call) ==
  Cardinality({k \in 1..Len(call.doc) :
                 /\ ~call.doc[k].node.global
                 /\ \/ call.doc[k].node.text = "empty"
                    \/ k \in call.failedLinks})

HeadOf(c) == SelectSeq(head, LAMBDA n : n.call = c)

MovedOneGlobal(c) ==
  /\ Len(HeadOf(c)) = 1
  /\ calls[c].doc[HeadOf(c)[1].ix].node.global
  /\ \A k \in 1..Len(calls[c].tree) : calls[c].tree[k].ix # HeadOf(c)[1].ix

Loaded(c) == calls[c].pc = "resolved" /\ calls[c].fetches > 0

\* C7 (global style isolation), as claimed: a loaded document with N style sources,
\* exactly one of them global, yields exactly N-1 adopted stylesheets and exactly one
\* node moved into the host head, which is no longer in the component's tree.
C7_GlobalStyleIsolation ==
  \A c \in CallIds :
    (Loaded(c) /\ GlobalCount(calls[c].doc) = 1)
    => ( /\ Len(classes[calls[c].cec].adoptedStyleSheets) = Len(calls[c].doc) - 1
         /\ MovedOneGlobal(c) )

\* C7, amended: the list holds one stylesheet for each of the N-1 other sources
\* that is not empty and, for a link, was fetched (N-1 when all are); exactly one
\* node moves into the host head and is no longer in the component's tree.
C7_GlobalStyleIsolationAmended ==
  \A c \in CallIds :
    (Loaded(c) /\ GlobalCount(calls[c].doc) = 1)
    => ( /\ Len(classes[calls[c].cec].adoptedStyleSheets)
              = Len(calls[c].doc) - 1 - SkippedCount(calls[c])
         /\ \A k \in 1..Len(classes[calls[c].cec].adoptedStyleSheets) :
              ~calls[c].doc[classes[calls[c].cec].adoptedStyleSheets[k].ix].node.global
         /\ MovedOneGlobal(c) )

\* C7 witness: a document of three style sources, one of them global, was loaded and
\* two stylesheets were adopted.
C7_Witness ==
  \E c \in CallIds :
    /\ Loaded(c) /\ GlobalCount(calls[c].doc) = 1
    /\ Len(calls[c].doc) = 3
    /\ Len(classes[calls[c].cec].adoptedStyleSheets) = 2
    /\ Len(HeadOf(c)) = 1

\* call c rejects in this step
Rejects(c) == calls[c].pc # "rejected" /\ calls'[c].pc = "rejected"

\* C33 (failed load leaves the host document unchanged): when a loadComponent call
\* rejects, the host document's head holds no style or link node of that call's
\* component, and the rejecting step changes neither the registry nor the record
\* (no earlier step of a call writes them).
C33_FailedLoadLeavesHost ==
  [][\A c \in CallIds :
       Rejects(c) => /\ HeadOf(c)' = <<>>
                     /\ UNCHANGED <<registry, record>>]_vars

\* the part that holds: the registry and the record are untouched, and the head is
\* untouched when the call rejects before its document was parsed
C33_FailedLoadLeavesRegistry ==
  [][\A c \in CallIds :
       Rejects(c) => /\ UNCHANGED <<registry, record, head>>
                     /\ calls'[c].error \in {"fetch", "name-in-use"} => HeadOf(c)' = <<>>
                     /\ calls'[c].cec = 0]_vars

\* the sources of the served document whose stylesheet the shadow root should adopt
\* when the links in lost failed to load: links first, then styles, in document order
SheetsExpected(doc, lost) ==
  LET wanted(tag) == SelectSeq(doc, LAMBDA n : /\ n.node.tag = tag
                                               /\ ~n.node.global
                                               /\ n.node.text # "empty"
                                               /\ n.ix \notin lost)
      all == wanted("link") \o wanted("style")
  IN [k \in 1..Len(all) |-> all[k].ix]

\* C16 (secondary stylesheet failure is swallowed): a call is never rejected while it
\* collects stylesheets; each link that failed left a warning; and a call that
\* resolved is registered with the stylesheets of exactly the other non-empty
\* sources, in order.
C16_StylesheetFailureSwallowed ==
  \A c \in CallIds :
    LET call == calls[c]
    IN /\ call.pc = "rejected" => call.error = "fetch" /\ call.failedLinks = {}
       /\ call.warnings >= Cardinality(call.failedLinks)
       /\ (call.pc = "resolved" /\ call.fetches > 0) =>
            /\ call.name \in DOMAIN registry
            /\ registry[call.name] = call.cec
            /\ [k \in 1..Len(classes[call.cec].adoptedStyleSheets) |->
                  classes[call.cec].adoptedStyleSheets[k].ix]
               = SheetsExpected(call.doc, call.failedLinks)

\* a component registered although one of its two links failed: one sheet adopted
C16_Witness ==
  \E c \in CallIds :
    /\ calls[c].pc = "resolved"
    /\ Cardinality(calls[c].failedLinks) = 1
    /\ Len(classes[calls[c].cec].adoptedStyleSheets) = 2
    /\ Len(calls[c].doc) = 3

\* the positions in the component document of the sources of a class's adopted
\* stylesheets, in the order of the adopted list
AdoptedFrom(cec) ==
  [k \in 1..Len(classes[cec].adoptedStyleSheets) |-> classes[cec].adoptedStyleSheets[k].ix]

\* the tag of the node at position ix of a component document
TagAt(doc, ix) == (CHOOSE n \in {doc[k] : k \in DOMAIN doc} : n.ix = ix).node.tag

\* C39 (stylesheet order): the adopted stylesheet list of a registered component is in
\* the document order of the style elements and stylesheet links it was built from.
C39_StylesheetOrder ==
  \A c \in CallIds :
    (calls[c].pc = "resolved" /\ calls[c].fetches > 0) =>
      \A j, k \in DOMAIN AdoptedFrom(calls[c].cec) :
        j < k => AdoptedFrom(calls[c].cec)[j] < AdoptedFrom(calls[c].cec)[k]

\* the order the list has: the links in document order, then the style elements in
\* document order
C39_LinksBeforeStyles ==
  \A c \in CallIds :
    (calls[c].pc = "resolved" /\ calls[c].fetches > 0) =>
      \A j, k \in DOMAIN AdoptedFrom(calls[c].cec) :
        LET from == AdoptedFrom(calls[c].cec)
            tj == TagAt(calls[c].doc, from[j])
            tk == TagAt(calls[c].doc, from[k])
        IN j < k => /\ ~(tj = "style" /\ tk = "link")
                    /\ tj = tk => from[j] < from[k]

\* C17 (dual-mode defineComponent): a call of defineComponent returns a new element
\* class without invoking setupFn exactly when the file of the frame that called it
\* is a blob URL recorded by esm(); otherwise it has invoked setupFn once with the
\* document and returns its result.
C17_DualModeDefineComponent ==
  dc.phase = "returned" =>
    IF dc.caller \in DOMAIN dc.blobMap
      THEN dc.result = "class" /\ dc.invoked = 0
      ELSE dc.result = "fcResult" /\ dc.invoked = 1 /\ dc.root = "document"

\* the part that holds: the same with the outermost frame of the stack in place of
\* the calling frame
C17_OutermostFrameDecides ==
  dc.phase = "returned" =>
    IF dc.stack[Len(dc.stack)] \in DOMAIN dc.blobMap
      THEN dc.result = "class" /\ dc.invoked = 0
      ELSE dc.result = "fcResult" /\ dc.invoked = 1 /\ dc.root = "document"

\* ------------------------------------------------------------------ claims: component class
\* the last of the namespaces ns that has the name n
LastExporting(ns, n) ==
  CHOOSE k \in DOMAIN ns :
    n \in DOMAIN ns[k] /\ \A j \in (k + 1)..Len(ns) : n \notin DOMAIN ns[j]

\* C30 (module export merging): the merged export object has exactly the names that
\* some evaluated module script exports, each with the value of the last such script
\* in document order; a script is out of the component tree once it was evaluated,
\* and no module script is in the tree when evaluateModules has returned.
C30_ModuleExportMerging ==
  /\ DOMAIN el.result = UNION {DOMAIN el.evaluated[k] : k \in DOMAIN el.evaluated}
  /\ \A n \in DOMAIN el.result :
       el.result[n] = el.evaluated[LastExporting(el.evaluated, n)][n]
  /\ el.tree = el.scripts
  /\ el.pc \in {"defined", "constructed"} => el.tree = <<>>

\* two module scripts that export different default values and only one of them x
C30_Witness ==
  /\ el.pc = "defined"
  /\ Len(el.evaluated) = 2
  /\ DOMAIN el.evaluated[1] = {"default", "x"}
  /\ DOMAIN el.evaluated[2] = {"default"}
  /\ el.evaluated[1]["default"] # el.evaluated[2]["default"]
  /\ el.result = [default |-> el.evaluated[2]["default"], x |-> el.evaluated[1]["x"]]

InstanceSynthesized ==
  /\ ~el.thrown
  /\ el.log[1] = "super"
  /\ IF SuperShadow(el.base).mode = "none"
       THEN el.shadow = [mode |-> "open", innerHTML |-> "template",
                         adoptedStyleSheets |-> el.adoptedStyleSheets]
       ELSE el.shadow = SuperShadow(el.base)
  /\ IF el.afterConstructor
       THEN /\ el.afterThis = <<el.instances>>
            /\ el.log[Len(el.log)] = "afterConstructor"
            /\ Cardinality({k \in DOMAIN el.log : el.log[k] = "afterConstructor"}) = 1
       ELSE el.afterThis = <<>>

\* C28 (instance synthesis): constructing an instance runs the base constructor
\* first; the element gets an open shadow root with the template markup and the
\* adopted stylesheets exactly when the base constructor left it without a shadow
\* root, and keeps the shadow root the base constructor created otherwise; then
\* afterConstructor, if supplied, is called once with the instance as this.
C28_InstanceSynthesis == el.pc = "constructed" => InstanceSynthesized

\* the same for the base classes whose shadow root, if they create one, is open
C28_InstanceSynthesisOpenRoots ==
  (el.pc = "constructed" /\ el.base # "ClosedShadow") => InstanceSynthesized

\* the sources of the served document whose text reached replaceSync and failed there
Unparseable(doc, lost) ==
  {n.ix : n \in {doc[k] : k \in DOMAIN doc} \cap
            {m \in {doc[k] : k \in DOMAIN doc} :
               ~m.node.global /\ m.node.text = "bad" /\ m.ix \notin lost}}

\* C29 (unparseable stylesheet): a style element or stylesheet link whose CSS text
\* fails to parse leaves a warning, does not reject the call, and has no entry in the
\* adopted stylesheet list of the registered component.
C29_UnparseableStylesheet ==
  \A c \in CallIds :
    LET call == calls[c]
    IN /\ call.pc = "rejected" => call.error = "fetch" /\ call.failedLinks = {}
       /\ (call.pc = "resolved" /\ call.fetches > 0) =>
            /\ call.warnings >= Cardinality(Unparseable(call.doc, call.failedLinks))
            /\ \A k \in DOMAIN classes[call.cec].adoptedStyleSheets :
                  classes[call.cec].adoptedStyleSheets[k].ix
                    \notin Unparseable(call.doc, call.failedLinks)

\* what the code does: the warning, no rejection, and one sheet in the list, at the
\* source's place, for which replaceSync did not complete
C29_UnparseableGivesSheet ==
  \A c \in CallIds :
    LET call == calls[c]
    IN /\ call.pc = "rejected" => call.error = "fetch" /\ call.failedLinks = {}
       /\ (call.pc = "resolved" /\ call.fetches > 0) =>
            /\ call.warnings = Cardinality(Unparseable(call.doc, call.failedLinks))
                                + Cardinality(call.failedLinks)
            /\ \A ix \in Unparseable(call.doc, call.failedLinks) :
                  Cardinality({k \in DOMAIN classes[call.cec].adoptedStyleSheets :
                                 classes[call.cec].adoptedStyleSheets[k]
                                   = [ix |-> ix, parsed |-> FALSE]}) = 1

\* C25 (temporary URL release): the temporary URL of every import that has settled,
\* fulfilled or rejected, is revoked, and no step removes or changes an entry of
\* blobMap.
C25_TemporaryUrlRelease ==
  [][ /\ \A b \in DOMAIN dc'.imports :
           dc'.imports[b] \in {"fulfilled", "rejected"} => b \notin dc'.live
      /\ \A b \in DOMAIN dc.blobMap :
           b \in DOMAIN dc'.blobMap /\ dc'.blobMap[b] = dc.blobMap[b] ]_vars

\* one import fulfilled, one rejected, both URLs revoked, both entries kept
C25_Witness ==
  /\ DOMAIN dc.imports = EsmBlobs
  /\ \E b, c \in EsmBlobs : dc.imports[b] = "fulfilled" /\ dc.imports[c] = "rejected"
  /\ dc.live = {}
  /\ DOMAIN dc.blobMap = EsmBlobs
  /\ \E b, c \in EsmBlobs : dc.blobMap[b] # dc.blobMap[c]

\* a frame that getImporterUrl does not pass over: it has a file, the file is not the
\* library's, and if it is a blob URL then esm() recorded it
Resolvable(blobMap, file) ==
  /\ file # NoFile
  /\ file # LibFile
  /\ startsWithBlob(file) => file \in DOMAIN blobMap

FirstResolvable(blobMap, stack) ==
  CHOOSE k \in DOMAIN stack :
    /\ Resolvable(blobMap, stack[k])
    /\ \A j \in 1..(k - 1) : ~Resolvable(blobMap, stack[j])

\* C26 (importer discovery): going through the caller's frames innermost first,
\* getImporterUrl returns for the first frame it does not pass over the frame's file,
\* or the source URL that blobMap holds for it when the file is a recorded blob URL;
\* it never returns a blob URL; when every frame is passed over it returns null and
\* loadComponent resolves against the location of the page.
C26_ImporterDiscovery ==
  dc.phase = "resolved" =>
    /\ ~startsWithBlob(dc.importer)
    /\ IF \E k \in DOMAIN dc.stack : Resolvable(dc.blobMap, dc.stack[k])
         THEN /\ dc.importer =
                   IF dc.stack[FirstResolvable(dc.blobMap, dc.stack)] \in DOMAIN dc.blobMap
                     THEN dc.blobMap[dc.stack[FirstResolvable(dc.blobMap, dc.stack)]]
                     ELSE dc.stack[FirstResolvable(dc.blobMap, dc.stack)]
              /\ dc.importerUrl = dc.importer
         ELSE dc.importer = Null /\ dc.importerUrl = LocationHref

\* loadComponent called by a function of a library frame that a blob nobody recorded
\* called, itself called by a module esm() made: the module's source URL is returned
C26_Witness ==
  /\ dc.phase = "resolved"
  /\ Len(dc.stack) = 3
  /\ dc.stack[1] = LibFile
  /\ dc.stack[2] = "blob:other"
  /\ dc.stack[3] \in DOMAIN dc.blobMap
  /\ dc.importer = dc.blobMap[dc.stack[3]]

\* the number of events of kind t that effect e left in the sequence of events tr
EventsOf(tr, t, e) == Cardinality({k \in DOMAIN tr : tr[k] = [t |-> t, id |-> e]})

\* C18 (binding evaluation failure): when the one evaluation a text binding made in a
\* step threw, a warning was reported, nothing reached the caller or the flush,
\* and the binding's text node keeps the text it had before the step (the empty
\* text of a node created in the step).
C18_BindingEvaluationFailure ==
  [][\A e \in DOMAIN effects' :
       LET n == effects'[e].body.node
       IN (/\ effects'[e].body.kind = "expr"
           /\ n # 0
           /\ EventsOf(trace', "run", e) = 1
           /\ EventsOf(trace', "warn", e) = 1)
          => /\ EventsOf(trace', "uncaught", 0) = 0
             /\ dom'.nodes[n].text = IF n \in DOMAIN dom.nodes THEN dom.nodes[n].text
                                                                ELSE EmptyText]_vars

\* the part that holds: the failure is reported and goes no further, and the text
\* node then holds String(undefined)
C18_FailureWritesUndefined ==
  [][\A e \in DOMAIN effects' :
       LET n == effects'[e].body.node
       IN (/\ effects'[e].body.kind = "expr"
           /\ n # 0
           /\ EventsOf(trace', "run", e) = 1
           /\ EventsOf(trace', "warn", e) = 1)
          => /\ EventsOf(trace', "uncaught", 0) = 0
             /\ dom'.nodes[n].text = Undefined]_vars

\* the steps of a load of the served document, in the order the claim gives: one
\* link step per <link> left after the global ones were moved out, one module step
\* per module script, each in document order
StepsOf(names) == [k \in 1..Len(names) |-> [step |-> names[k], ix |-> 0]]

PipelineOrder(styles, modules) ==
  LET links == SelectSeq(styles, LAMBDA n : n.node.tag = "link" /\ ~n.node.global)
  IN StepsOf(<<"resolve", "component-loading", "dedup", "requestText", "parse",
               "filterGlobalStyle", "rewriteStyleAndScript", "collectAdoptedStyleSheets">>)
     \o [k \in 1..Len(links) |-> [step |-> "link", ix |-> links[k].ix]]
     \o StepsOf(<<"evaluateModules">>)
     \o [k \in 1..Len(modules) |-> [step |-> "module", ix |-> modules[k].ix]]
     \o StepsOf(<<"relocateScripts", "selectBase", "extendsElement",
                  "customElements.define", "component-defined", "record">>)

IsPrefix(p, q) == Len(p) <= Len(q) /\ p = SubSeq(q, 1, Len(p))

LastStep(call) == call.steps[Len(call.steps)]

\* C19 (pipeline ordering): the steps a call has entered are always an initial part
\* of the pipeline's order for the document it was served; while the call waits for
\* a fetch or a module evaluation, the step it entered last is the one it waits for
\* (nothing later has started); a call that registered its component went through
\* every step.
C19_PipelineOrdering ==
  \A c \in CallIds :
    LET call == calls[c]
        order == PipelineOrder(call.doc, call.docModules)
    IN /\ call.fetches > 0 => IsPrefix(call.steps, order)
       /\ call.pc = "requestText" => LastStep(call).step = "requestText"
       /\ call.pc = "link" => LastStep(call) = [step |-> "link", ix |-> Head(call.links).ix]
       /\ call.pc = "esm" => LastStep(call) = [step |-> "module", ix |-> Head(call.scripts).ix]
       /\ (call.pc = "resolved" /\ call.fetches > 0) => call.steps = order

\* a load that went through both of its links and both of its module scripts
C19_Witness ==
  \E c \in CallIds :
    /\ calls[c].pc = "resolved"
    /\ Len(calls[c].docModules) = MaxModules
    /\ Cardinality({k \in DOMAIN calls[c].steps : calls[c].steps[k].step = "link"}) = 2
    /\ Cardinality({k \in DOMAIN calls[c].steps : calls[c].steps[k].step = "module"}) = MaxModules

\* ------------------------------------------------------------------ claims: signal graph
RunsOf(tr, e) == Cardinality({k \in DOMAIN tr : tr[k] = [t |-> "run", id |-> e]})

Events(tr, t) == Cardinality({k \in DOMAIN tr : tr[k].t = t})

\* C22 (bidirectional dependency edges): an effect, a computed's internal effect
\* included, is in the subscriber set of a signal or computed exactly when that set
\* is among the effect's deps.
C22_BidirectionalEdges ==
  \A e \in DOMAIN effects : \A d \in Deps :
    Includes(subscribers[d], e) <=> d \in effects[e].deps

\* after a flush, an effect whose guard had become false holds the edge to cond in
\* both directions and none to a, while the computed's internal effect holds its
\* edge to a
C22_Witness ==
  /\ op.name = "flush"
  /\ \E e \in UserEffects :
       /\ effects[e].body.guard = "cond"
       /\ effects[e].deps = {"cond"}
       /\ Includes(subscribers["cond"], e)
       /\ ~Includes(subscribers["a"], e)
  /\ effects[computeds["c"].internalEffect].deps = {"a"}
  /\ Includes(subscribers["a"], computeds["c"].internalEffect)

\* the effects whose wrapper a step entered, in the order it entered them
RunOrder(tr) ==
  LET runs == SelectSeq(tr, LAMBDA ev : ev.t = "run")
  IN [k \in 1..Len(runs) |-> runs[k].id]

SubscribedOnlyToLastRead ==
  \A e \in DOMAIN effects : \A d \in Deps :
    Includes(subscribers[d], e) => d \in effects[e].read

ReadThrough(e) ==
  effects[e].read \cup
    UNION { effects[computeds[c].internalEffect].read : c \in effects[e].read \cap Computeds }

C5_ComputedLaziness ==
  [][ /\ Events(trace', "fn") =
           IF computeds["c"].stale /\ Events(trace', "read") > 0 THEN 1 ELSE 0
      /\ \A k \in DOMAIN trace' :
           trace'[k].t = "fn" => k > 1 /\ trace'[k - 1].t = "read"
      /\ op'.name = "write" => Events(trace', "fn") = 0 ]_vars

\* a flush in which two effects read the computed after a changed: one call
C5_Witness ==
  /\ op.name = "flush"
  /\ value["a"] = 1
  /\ Events(trace, "read") = 2
  /\ Events(trace, "fn") = 1

\* ------------------------------------------------------------------ claims: computed
\* at position k of the trace, the function of the computed with internal effect id
\* has been entered and has not yet returned or thrown
Computing(tr, k, id) ==
  Cardinality({j \in 1..(k - 1) : tr[j] = [t |-> "fn", id |-> id]}) >
  Cardinality({j \in 1..(k - 1) : tr[j] = [t |-> "ret", id |-> id]})

\* C14 (computed reentrancy): a read of a computed made while that computed's function
\* is executing, directly or through other computeds, throws at once (it neither
\* enters the function again nor returns a value), and the error reaches the caller
\* of the outermost read.
C14_ComputedReentrancy ==
  [][ \A k \in DOMAIN trace' :
        (trace'[k].t = "read" /\ Computing(trace', k, trace'[k].id)) =>
          /\ k < Len(trace')
          /\ trace'[k + 1] = [t |-> "throw", id |-> trace'[k].id]
          /\ trace'[Len(trace')].t = "uncaught" ]_vars

\* a read of p that entered p's function, then q's, whose read of p threw
C14_Witness ==
  /\ op = Op("read", "p", 0)
  /\ Events(trace, "fn") = 2
  /\ Events(trace, "throw") = 1
  /\ Events(trace, "uncaught") = 1

\* C35 (a throwing job does not lose other jobs): every job in the snapshot of a
\* flush has been run by that flush or is in the queue for a later one when the flush
\* ends, also when a job of the snapshot threw.
C35_ThrowingJobKeepsJobs ==
  [][ op'.name = "flush" =>
        \A k \in DOMAIN jobQueue :
          RunsOf(trace', jobQueue[k]) >= 1 \/ Includes(jobQueue', jobQueue[k]) ]_vars

\* what a flush does: it runs the jobs of the snapshot in order up to the first that
\* throws, and the jobs behind that one are neither run nor queued again
C35_ThrowingJobEndsFlush ==
  [][ op'.name = "flush" =>
        /\ IsPrefix(RunOrder(trace'), jobQueue)
        /\ Events(trace', "uncaught") = 0 => RunOrder(trace') = jobQueue
        /\ Events(trace', "uncaught") = 1 =>
              \A k \in (Len(RunOrder(trace')) + 1)..Len(jobQueue) :
                ~Includes(jobQueue', jobQueue[k]) ]_vars

\* the effects whose function reads the signal a and then the computed c, which is
\* derived from a
ReadsBoth == {e \in UserEffects : effects[e].body.reads = <<"a", "c">>}

EffectIds == 1..(Len(ComputedList) + MaxUserEffects)

\* a flush is pending whenever the queue is not empty
FlushPendingWhenQueued ==
  jobQueue # <<>> => isFlushPending /\ microtasks >= 1

\* C36 (no lost wakeup): between tasks, a non-empty queue always has a flush pending
\* (the flag set and a microtask scheduled), and a job leaves the queue only by being
\* run: a step that is not a flush keeps every queued job queued, and a flush runs
\* every job it found queued or leaves it queued. With the scheduled microtask
\* running, every job that is enqueued is then eventually run.
C36_NoLostWakeup ==
  [][ /\ FlushPendingWhenQueued'
      /\ \A e \in EffectIds :
           Includes(jobQueue, e) =>
             IF op'.name = "flush"
             THEN RunsOf(trace', e) >= 1 \/ Includes(jobQueue', e)
             ELSE Includes(jobQueue', e) ]_vars

\* the first half, which holds also when jobs throw
C36_FlushPendingWhenQueued == []FlushPendingWhenQueued

\* the conclusion as a liveness property, under FlushRuns: every job that is in the
\* queue is eventually run by a flush
C36_EnqueuedJobsRun ==
  \A e \in EffectIds :
    Includes(jobQueue, e) ~> (op.name = "flush" /\ RunsOf(trace, e) >= 1)

\* the number of events [t, id] among the first k of tr
EventsBefore(tr, t, id, k) ==
  Cardinality({j \in 1..(k - 1) : tr[j] = [t |-> t, id |-> id]})

\* C34 (ambient tracking state is restored): after every step (an effect created and
\* run, a computed read, a scope set up, a write, a flush), whether it returned or
\* threw, activeEffect and activeScope are null again and no computed is marked as
\* computing; and a computed's read throws the circular-dependency error only while
\* the function of that computed is running (entered and not yet left).
C34_AmbientStateRestored ==
  /\ activeEffect = 0
  /\ activeScope = 0
  /\ \A c \in Computeds : ~computeds[c].isComputing
  /\ \A k \in DOMAIN trace :
       trace[k].t = "throw" =>
         EventsBefore(trace, "fn", trace[k].id, k) > EventsBefore(trace, "ret", trace[k].id, k)

\* a scope whose setup threw in its second effect, after a first effect that read the
\* computed c
C34_Witness ==
  /\ op.name = "scope"
  /\ Events(trace, "uncaught") = 1
  /\ Events(trace, "run") = 2
  /\ Events(trace, "throw") = 1
  /\ Len(scopes) = 1
  /\ Cardinality(scopes[1].members) = 1

\* ------------------------------------------------------------------ claims: stopping
InNoSubscriberSet(subs, e) == \A d \in Deps : ~Includes(subs[d], e)

\* C11 (stop is immediate and final): an effect whose stop function, or whose scope's
\* stop, has been called never runs its body again and is in no subscriber set, also
\* when a run of it was queued before the stop.
C11_StopIsFinal ==
  [][ \A e \in DOMAIN effects :
        effects[e].stopped =>
          RunsOf(trace', e) = 0 /\ InNoSubscriberSet(subscribers', e) ]_vars

\* C13 (effect scope bulk stop): the effects created during a scope's setup are the
\* scope's registered effects; stopping the scope leaves each of them in no subscriber
\* set; a later write to a signal enqueues none of them; stopping a stopped scope
\* changes nothing.
C13_ScopeBulkStop ==
  [][ /\ op'.name = "scope" =>
           /\ scopes'[op'.val].effects =
                 [k \in 1..(Len(effects') - Len(effects)) |-> Len(effects) + k]
           /\ scopes'[op'.val].members = (DOMAIN effects') \ (DOMAIN effects)
      /\ op'.name = "scopeStop" =>
           /\ \A e \in scopes[op'.val].members : InNoSubscriberSet(subscribers', e)
           /\ ~scopes[op'.val].active =>
                 UNCHANGED <<value, subscribers, effects, jobQueue, isFlushPending,
                             microtasks, scopes>>
      /\ op'.name = "write" =>
           \A sc \in DOMAIN scopes : \A e \in scopes[sc].members :
             ~scopes[sc].active => Count(jobQueue', e) = Count(jobQueue, e) ]_vars

\* ------------------------------------------------------------------ claims: binder
\* C6 (list directive full re-render): after a flush that re-ran the #for effect on a
\* sequence of length n, exactly n item subtrees are mounted, and every effect stopped
\* with a previous item subtree is in no subscriber set and holds no dependency.
C6_FullRerender ==
  ( /\ dom.bound
    /\ op.name = "flush"
    /\ RunsOf(trace, dom.forEffect) = 1
    /\ value["list"] \in DOMAIN Arrays )
  => /\ Len(dom.children) = Len(Arrays[value["list"]])
     /\ \A e \in DOMAIN effects :
          effects[e].stopped =>
            effects[e].deps = {} /\ \A d \in Deps : ~Includes(subscribers[d], e)


\* the items of the mounted item subtrees, in the order in which the subtrees follow
\* the placeholder
MountedItems == [k \in DOMAIN dom.children |-> dom.nodes[dom.children[k]].item]

\* a render pass of the #for effect over a source array has just been made
RenderPassMade ==
  /\ dom.bound
  /\ dom.directive = "for"
  /\ RunsOf(trace, dom.forEffect) = 1
  /\ Events(trace, "uncaught") = 0
  /\ value["list"] \in DOMAIN Arrays

\* C38 (list order): after a render pass of the #for effect over a source array, the
\* mounted item subtrees follow the placeholder in the order of the elements of the
\* source array.
C38_ListOrder ==
  RenderPassMade => MountedItems = Arrays[value["list"]]

\* what the render pass leaves: the subtrees follow the placeholder in the reverse
\* order of the source array, each clone having been inserted directly after the
\* placeholder
C38_ListOrderReversed ==
  RenderPassMade => MountedItems = Reverse(Arrays[value["list"]])

\* the effects bound inside the item subtrees that are mounted
MountedItemEffects ==
  {e \in DOMAIN effects :
     \E k \in DOMAIN dom.renderedItems : effects[e].body.node = dom.renderedItems[k].node}

\* C12 (binder teardown is recursive): after the function returned by reactiveNodes is
\* called, neither the #for effect of the bound template nor any effect bound inside
\* a mounted item subtree is in a subscriber set.
C12_RecursiveTeardown ==
  [][ op'.name = "teardown" =>
        \A e \in {dom.forEffect} \cup MountedItemEffects :
          InNoSubscriberSet(subscribers', e) ]_vars

\* a bind or a flush in which the #for effect ran and its expression gave no array
NonArrayPass ==
  /\ op'.name \in {"bind", "flush"}
  /\ dom'.directive = "for"
  /\ RunsOf(trace', dom'.forEffect) = 1
  /\ value'["list"] \notin DOMAIN Arrays

\* C24 (non-sequence #for source): when a pass of the #for effect evaluates its
\* expression to something that is not an array, a warning is issued, nothing is
\* thrown, and after the pass zero item subtrees are mounted for that list.
C24_NonSequenceSource ==
  [][ NonArrayPass =>
        /\ EventsOf(trace', "warn", 0) = 1
        /\ Events(trace', "uncaught") = 0
        /\ Len(dom'.children) = 0 ]_vars

\* what the pass does: it warns, throws nothing, and mounts and removes nothing, so
\* the item subtrees of the previous pass stay mounted
C24_NonSequenceKeepsItems ==
  [][ NonArrayPass =>
        /\ EventsOf(trace', "warn", 0) = 1
        /\ Events(trace', "uncaught") = 0
        /\ dom'.children = dom.children
        /\ dom'.renderedItems = dom.renderedItems ]_vars

\* the effects bound inside node n
EffectsBoundIn(effs, n) == {e \in DOMAIN effs : effs[e].body.node = n}

\* the mounting half of C23: after every bind and flush the clone is mounted exactly
\* when the latest evaluation of the condition was truthy, at most one clone is
\* mounted, and a falsy-to-truthy transition mounts a clone that did not exist before
\* and binds a new effect inside it
C23_MountTracksCondition ==
  [][ op'.name \in {"bind", "flush"} /\ dom'.directive = "if" =>
        /\ dom'.renderedNode # 0 <=> dom'.condition
        /\ dom'.children = IF dom'.condition THEN <<dom'.renderedNode>> ELSE <<>>
        /\ ~dom.condition /\ dom'.condition =>
              /\ dom'.renderedNode \notin DOMAIN dom.nodes
              /\ EffectsBoundIn(effects', dom'.renderedNode) # {}
              /\ EffectsBoundIn(effects', dom'.renderedNode) \cap DOMAIN effects = {} ]_vars

\* C23 (conditional directive): for a #if binding a clone of the template is mounted
\* exactly when the most recent evaluation of the condition was truthy, at most one
\* clone is mounted at any time, a falsy-to-truthy transition mounts and binds a fresh
\* clone, and a truthy-to-falsy transition removes the clone and leaves every effect
\* that was bound inside it in no subscriber set.
C23_ConditionalDirective ==
  [][ op'.name \in {"bind", "flush"} /\ dom'.directive = "if" =>
        /\ dom'.renderedNode # 0 <=> dom'.condition
        /\ Len(dom'.children) <= 1
        /\ ~dom.condition /\ dom'.condition =>
              dom'.renderedNode \notin DOMAIN dom.nodes
        /\ dom.condition /\ ~dom'.condition =>
              /\ dom'.children = <<>>
              /\ \A e \in EffectsBoundIn(effects, dom.renderedNode) :
                    InNoSubscriberSet(subscribers', e) ]_vars

\* a flush that unmounted the clone, and one that mounted a second clone
C23_Witness ==
  /\ op.name = "flush"
  /\ dom.directive = "if"
  /\ dom.condition
  /\ Len(dom.nodes) = 2
  /\ dom.renderedNode = 2

\* ------------------------------------------------------------------ claims: rewriter
S_blob == <<"b", "l", "o", "b", ":">>

\* the classification as claimed: absolute http(s), blob and data URLs unchanged
ClaimedSpecifier(spec, u) ==
  IF \/ StartsWith(spec, S_http) \/ StartsWith(spec, S_https)
     \/ StartsWith(spec, S_blob) \/ StartsWith(spec, S_data)
    THEN spec
  ELSE IF StartsWith(spec, <<".">>) \/ StartsWith(spec, <<"/">>)
    THEN URLResolve(spec, u)
  ELSE S_esm_sh \o spec

\* C8 (import specifier classification), as claimed: every specifier of the module
\* is left unchanged if it is an absolute http(s), blob or data URL, resolved against
\* the source URL if it starts with "." or "/", and sent to https://esm.sh/ otherwise.
C8_SpecifierClassification ==
  rw.phase = "rewritten"
  => rw.out = S_meta \o JSONStringify(rw.sourceUrl) \o <<";", "\n">>
                \o ModuleText([k \in 1..Len(rw.specs) |->
                                 ClaimedSpecifier(rw.specs[k], rw.sourceUrl)])

=============================================================================
